---------------------------- MODULE Spec2Model ----------------------------
(***************************************************************************)
(* OpenBook content ingestion pipeline: URL validator (rss.js), shared     *)
(* rate-limited fetch queue with per-task retry (queue.js, http.js), the   *)
(* persistent conditional cache (RSSReader.fetchWithCache) and the call    *)
(* sites that issue outbound fetches.                                      *)
(***************************************************************************)
EXTENDS Integers, Sequences, FiniteSets, TLC

(***************************************************************************)
(* Bounds of the model.                                                    *)
(***************************************************************************)
MaxCalls == 3          \* fetch calls issued in one behaviour of Spec
MaxItems == 3          \* articles in one listing
CacheCalls == 2        \* fetchWithCache calls issued in one behaviour of SpecCache
MaxEvents == 4         \* events in the activity log
MaxTitle == 2          \* tokens in a title
NumFeeds == 12         \* feeds of the reader in SpecBatch
MaxAdds == 3           \* addFeed calls in one behaviour of SpecAdd

(***************************************************************************)
(* Program constants.                                                      *)
(***************************************************************************)
\* OPENBOOK_FETCH_CONCURRENCY, OPENBOOK_FETCH_INTERVAL_CAP and
\* OPENBOOK_FETCH_INTERVAL_MS are read from the environment (defaults 4, 10,
\* 1000); the model runs the configuration 2 / 2 / 1000.
concurrency == 2
intervalCap == 2
interval == 1000
\* withRetry's default options.
retries == 3
baseDelayMs == 800
\* e.status of an error that carries no status (fetch rejected: network/DNS).
NoStatus == -1
\* RSSReader.cacheExpiry = 5 * 60 * 1000
cacheExpiry == 300000

Calls == 1..MaxCalls

Min(S) == CHOOSE x \in S : \A y \in S : x <= y

RECURSIVE Pow2(_)
Pow2(n) == IF n = 0 THEN 1 ELSE 2 * Pow2(n - 1)

(***************************************************************************)
(* URLs.  URLParse is what `new URL(raw)` yields for the raw strings the   *)
(* model draws: ok = FALSE when the constructor throws, href is            *)
(* u.toString() (scheme and host lower-cased, "/" path added).             *)
(***************************************************************************)
RawUrls ==
  { "http://feed.example/rss", "HTTP://FEED.example/rss",
    "https://intranet.corp/feed", "http://rebind.example/",
    "ftp://files.example/x", "not a url" }

URLParse(raw) ==
  CASE raw = "http://feed.example/rss" ->
         [ok |-> TRUE, protocol |-> "http:", hostname |-> "feed.example",
          href |-> "http://feed.example/rss"]
    [] raw = "HTTP://FEED.example/rss" ->
         [ok |-> TRUE, protocol |-> "http:", hostname |-> "feed.example",
          href |-> "http://feed.example/rss"]
    [] raw = "https://intranet.corp/feed" ->
         [ok |-> TRUE, protocol |-> "https:", hostname |-> "intranet.corp",
          href |-> "https://intranet.corp/feed"]
    [] raw = "http://rebind.example/" ->
         [ok |-> TRUE, protocol |-> "http:", hostname |-> "rebind.example",
          href |-> "http://rebind.example/"]
    [] raw = "ftp://files.example/x" ->
         [ok |-> TRUE, protocol |-> "ftp:", hostname |-> "files.example",
          href |-> "ftp://files.example/x"]
    [] OTHER ->
         [ok |-> FALSE, protocol |-> "", hostname |-> "", href |-> ""]

Hrefs == { URLParse(r).href : r \in { x \in RawUrls : URLParse(x).ok } }

\* u.origin
Origin(u) == u.protocol \o "//" \o u.hostname

\* The keys a feeds row may have: a feed's URL, or an article's origin.
FeedKeys == Hrefs \cup { Origin(URLParse(h)) : h \in Hrefs }

(***************************************************************************)
(* IP addresses as dns.lookup reports them.  An IPv4 address is known by   *)
(* its first two octets (isPrivateIp reads no more).  An IPv6 address is   *)
(* h1:0:0:0:0:0:0:h8, and Ipv6Text is its canonical text (lower-case hex,  *)
(* no leading zeros, the zero run written "::").                           *)
(***************************************************************************)
HexDigit(d) ==
  CASE d = 0 -> "0" [] d = 1 -> "1" [] d = 2 -> "2" [] d = 3 -> "3"
    [] d = 4 -> "4" [] d = 5 -> "5" [] d = 6 -> "6" [] d = 7 -> "7"
    [] d = 8 -> "8" [] d = 9 -> "9" [] d = 10 -> "a" [] d = 11 -> "b"
    [] d = 12 -> "c" [] d = 13 -> "d" [] d = 14 -> "e" [] OTHER -> "f"

RECURSIVE Hex(_)
Hex(n) == IF n < 16 THEN <<HexDigit(n)>>
          ELSE Append(Hex(n \div 16), HexDigit(n % 16))

Ipv6Text(h1, h8) ==
  (IF h1 = 0 THEN <<>> ELSE Hex(h1)) \o <<":", ":">> \o
  (IF h8 = 0 THEN <<>> ELSE Hex(h8))

startsWith(text, prefix) ==
  /\ Len(text) >= Len(prefix)
  /\ SubSeq(text, 1, Len(prefix)) = prefix

V4(a, b) == [fam |-> 4, a |-> a, b |-> b, h1 |-> 0, h8 |-> 0]
V6(h1, h8) == [fam |-> 6, a |-> 0, b |-> 0, h1 |-> h1, h8 |-> h8]

isPrivateIp(ip) ==
  IF ip.fam = 4 THEN
    \/ ip.a = 10
    \/ ip.a = 127
    \/ (ip.a = 169 /\ ip.b = 254)
    \/ (ip.a = 172 /\ ip.b >= 16 /\ ip.b <= 31)
    \/ (ip.a = 192 /\ ip.b = 168)
    \/ ip.a = 0
  ELSE IF ip.fam = 6 THEN
    LET v == Ipv6Text(ip.h1, ip.h8) IN
      \/ v = <<":", ":", "1">>
      \/ startsWith(v, <<"f", "e", "8", "0", ":">>)
      \/ startsWith(v, <<"f", "c">>)
      \/ startsWith(v, <<"f", "d">>)
  ELSE TRUE

(***************************************************************************)
(* validateHttpUrl(url): ans is what dns.lookup(hostname, {all: true})     *)
(* answers if it is called.  kind is "return" or "throw"; lookups counts   *)
(* the dns.lookup calls made.                                              *)
(***************************************************************************)
DnsFailed == [failed |-> TRUE, addrs |-> {}]
DnsOk(addrs) == [failed |-> FALSE, addrs |-> addrs]

Verdict(ok, reason, lookups) ==
  [kind |-> "return", ok |-> ok, reason |-> reason, lookups |-> lookups]

validateOverrideFirst(url, allowPrivate, ans) ==
  LET u == URLParse(url) IN
  IF allowPrivate THEN Verdict(TRUE, "", 0)
  ELSE IF ~u.ok THEN Verdict(FALSE, "Invalid URL", 0)
  ELSE IF u.protocol \notin {"http:", "https:"}
    THEN Verdict(FALSE, "Only http/https URLs are allowed", 0)
  ELSE IF ans.failed THEN Verdict(FALSE, "DNS lookup failed", 1)
  ELSE IF \E x \in ans.addrs : isPrivateIp(x)
    THEN Verdict(FALSE, "Blocked private network address", 1)
  ELSE Verdict(TRUE, "", 1)

validateHttpUrl(url, allowPrivate, ans) ==
  LET u == URLParse(url) IN
  IF ~u.ok THEN Verdict(FALSE, "Invalid URL", 0)
  ELSE IF u.protocol \notin {"http:", "https:"}
    THEN Verdict(FALSE, "Only http/https URLs are allowed", 0)
  ELSE IF allowPrivate THEN Verdict(TRUE, "", 0)
  ELSE IF ans.failed THEN Verdict(FALSE, "DNS lookup failed", 1)
  ELSE IF \E x \in ans.addrs : isPrivateIp(x)
    THEN Verdict(FALSE, "Blocked private network address", 1)
  ELSE Verdict(TRUE, "", 1)

\* The resolver's possible answers for the hosts of RawUrls.
DnsAnswers(hostname) ==
  CASE hostname = "feed.example" -> { DnsOk({V4(93, 184)}) }
    [] hostname = "intranet.corp" -> { DnsOk({V4(10, 0)}) }
    [] hostname = "rebind.example" -> { DnsOk({V4(93, 184)}), DnsOk({V4(127, 0)}) }
    [] OTHER -> { DnsFailed }

\* OPENBOOK_ALLOW_PRIVATE_FEEDS as the server runs by default (unset).
AllowPrivateFeeds == FALSE

(***************************************************************************)
(* withRetry(taskFn, {retries = 3, baseDelayMs = 800})                     *)
(***************************************************************************)
shouldRetryAlways(status) == TRUE

shouldRetryNo429(status) ==
  \/ (status >= 500 /\ status <= 599)
  \/ status = NoStatus

shouldRetry(status) ==
  \/ status = 429
  \/ (status >= 500 /\ status <= 599)
  \/ status = NoStatus

RetryDelayLinear(i) == baseDelayMs * (i + 1)

RetryDelay(i) == baseDelayMs * Pow2(i)

\* res.ok of a fetch Response.
ResOkOr304(status) == (status >= 200 /\ status <= 299) \/ status = 304

ResOk(status) == status >= 200 /\ status <= 299


(***************************************************************************)
(* State.                                                                  *)
(***************************************************************************)
VARIABLES
  feeds,       \* RSSReader.feeds: the live feed set, a list of {url, name}
  feedsTable,  \* feeds table: url -> name ("-" where there is no row)
  cache,       \* fetch_cache table: url -> row
  phase,       \* per call: idle, queued, attempt, sleep, settled, done
  site,        \* per call: the call site, feed / article / resource
  callUrl,     \* per call: the URL handed to queuedFetch
  cachedSnap,  \* per call: fetchWithCache's `cached` (the row read at entry)
  retryIdx,    \* per call: withRetry's loop index i
  outcomes,    \* per call: what each network attempt answered, in order
  delays,      \* per call: the sleep(delay) calls made, in order
  sleepLeft,   \* per call: ms until the pending sleep timer fires
  taskResult,  \* per call: how the queuedFetch promise settled
  callResult,  \* per call: what the call returned or threw
  waiting,     \* fetchQueue: tasks added and not yet started
  running,     \* fetchQueue: tasks started and not yet settled
  starts,      \* fetchQueue: age in ms of each task start of the last window
  probe,       \* a validateHttpUrl call: its inputs and its verdict
  mem,         \* RSSReader.cache: url -> {data, timestamp} (kept as its age)
  parse,       \* per call: the parseFeed call it serves and what that returned
  reply,       \* what the last addFeed call or state request answered
  articles,    \* articles table: its rows, in insertion order
  articleState,\* article_state table: its rows, in insertion order
  view,        \* an article listing: its input and the list it returned
  activity,    \* activity_log table: its rows, in insertion order
  notes,       \* article_notes table: its rows, in insertion order
  docs,        \* the Markdown documents on disk, by path
  assets,      \* the other files written: image assets and note files
  jobs,        \* the downloadResources passes started, in order
  pass,        \* a getAllArticles call: its batches and what it returned
  adding,      \* the addFeed calls awaiting validateHttpUrl
  reqBody      \* per call: req.body of the materialize request it serves

vars == <<feeds, feedsTable, cache, phase, site, callUrl, cachedSnap, retryIdx,
          outcomes, delays, sleepLeft, taskResult, callResult, waiting,
          running, starts, probe, mem, parse, reply, articles, articleState,
          view, activity, notes, docs, assets, jobs, pass, adding,
          reqBody>>

\* The activity log, the notes, the files and the detached or pending calls.
sideVars == <<activity, notes, docs, assets, jobs, pass, adding, reqBody>>

\* The state of the feed reader's memory tier, of addFeed's and the state
\* handler's answers, of the article tables and of the listings.
extVars == <<mem, parse, reply, articles, articleState, view, sideVars>>

queueVars == <<waiting, running, starts>>
retryVars == <<retryIdx, outcomes, delays, sleepLeft, taskResult>>

NoRow == [present |-> FALSE, status |-> 0, etag |-> "", body |-> "", fetched_at |-> 0]
NoTaskResult == [kind |-> "none", status |-> 0, etag |-> "", body |-> ""]
NoCallResult ==
  [kind |-> "none", status |-> 0, body |-> "", fromCache |-> FALSE,
   error |-> FALSE, errStatus |-> 0]
NoMem == [present |-> FALSE, data |-> "", age |-> 0]
NoParse == [url |-> "", out |-> "none", data |-> ""]
NoReply == [kind |-> "none"]
NoView == [kind |-> "none"]
NoProbe ==
  [url |-> "", allowPrivate |-> FALSE, ans |-> DnsFailed,
   out |-> [kind |-> "none", ok |-> FALSE, reason |-> "", lookups |-> 0]]

NoPass == [kind |-> "none"]

\* A request body with neither feedUrl nor title.
NoBody == [feedUrl |-> "", title |-> ""]

\* new Map(), the empty tables of a fresh database and an empty data directory.
InitTables ==
  /\ mem = [u \in RawUrls |-> NoMem]
  /\ parse = [c \in Calls |-> NoParse]
  /\ reply = NoReply
  /\ articles = <<>>
  /\ articleState = <<>>
  /\ activity = <<>>
  /\ notes = <<>>
  /\ docs = [p \in {} |-> 0]
  /\ assets = {}
  /\ jobs = <<>>
  /\ pass = NoPass
  /\ adding = <<>>
  /\ reqBody = [c \in Calls |-> NoBody]

InitExt ==
  /\ InitTables
  /\ view = NoView

InitCore ==
  /\ feeds = <<>>
  /\ feedsTable = [u \in FeedKeys |-> "-"]
  /\ cache = [u \in Hrefs |-> NoRow]
  /\ phase = [c \in Calls |-> "idle"]
  /\ site = [c \in Calls |-> "none"]
  /\ callUrl = [c \in Calls |-> ""]
  /\ cachedSnap = [c \in Calls |-> NoRow]
  /\ retryIdx = [c \in Calls |-> 0]
  /\ outcomes = [c \in Calls |-> <<>>]
  /\ delays = [c \in Calls |-> <<>>]
  /\ sleepLeft = [c \in Calls |-> 0]
  /\ taskResult = [c \in Calls |-> NoTaskResult]
  /\ callResult = [c \in Calls |-> NoCallResult]
  /\ waiting = {}
  /\ running = {}
  /\ starts = <<>>

InitPipeline ==
  /\ InitExt
  /\ InitCore

Init ==
  /\ InitPipeline
  /\ probe = NoProbe

(***************************************************************************)
(* fetchQueue = new PQueue({concurrency, intervalCap, interval}).          *)
(* Admission: a waiting task is started as soon as fewer than              *)
(* `concurrency` tasks are running and fewer than `intervalCap` tasks were *)
(* started in the last `interval` ms.                                      *)
(***************************************************************************)
Room(w, r, s) ==
  Min({Cardinality(w), concurrency - Cardinality(r), intervalCap - Len(s)})

\* Start as many waiting tasks as the caps allow; ph is the phase map to update.
Admit(ph, w, r, s) ==
  \E S \in SUBSET w :
    /\ Cardinality(S) = Room(w, r, s)
    /\ waiting' = w \ S
    /\ running' = r \cup S
    /\ starts' = s \o [k \in 1..Cardinality(S) |-> 0]
    /\ phase' = [x \in Calls |-> IF x \in S THEN "attempt" ELSE ph[x]]

\* A call made without the queue: the first attempt goes out at once.
fetchUnqueued(c, ph) ==
  /\ phase' = [ph EXCEPT ![c] = "attempt"]
  /\ UNCHANGED queueVars

\* queuedFetch(url, options): fetchQueue.add(() => withRetry(...)).
queuedFetch(c, ph) ==
  Admit([ph EXCEPT ![c] = "queued"], waiting \cup {c}, running, starts)

\* The task's promise settles and its slot is kept.
holdSlot(c, ph) ==
  Admit(ph, waiting, running, starts)

\* The task's promise settles: its slot is released and the queue moves on.
Release(c, ph) ==
  Admit(ph, waiting, running \ {c}, starts)

(***************************************************************************)
(* Call sites.                                                             *)
(***************************************************************************)
CanBegin(c) == phase[c] = "idle"

FeedUrls == { feeds[k].url : k \in 1..Len(feeds) }

\* `this.feeds.some(f => f.url === normalizedUrl)`
existsNever(normalizedUrl) == FALSE

exists(normalizedUrl) == normalizedUrl \in FeedUrls

\* What an addFeed(url, name) call answered.
AddFeedReply(kind, value, url, name) ==
  [kind |-> kind, value |-> value, url |-> url, name |-> name]

\* RSSReader.addFeed(url, name); ans is the resolver's answer.
AddFeed(url, name) ==
  \E ans \in DnsAnswers(URLParse(url).hostname) :
    LET validated == validateHttpUrl(url, AllowPrivateFeeds, ans)
        normalizedUrl == URLParse(url).href
    IN
    /\ IF ~validated.ok
         THEN \* throw new Error(`Feed URL rejected: ...`)
              /\ reply' = AddFeedReply("throw", FALSE, url, name)
              /\ UNCHANGED <<feeds, feedsTable>>
         ELSE IF exists(normalizedUrl)
         THEN /\ reply' = AddFeedReply("return", FALSE, url, name)
              /\ UNCHANGED <<feeds, feedsTable>>
         ELSE /\ feeds' = Append(feeds,
                   [url |-> normalizedUrl,
                    name |-> IF name = "" THEN normalizedUrl ELSE name])
              /\ feedsTable' = [feedsTable EXCEPT ![normalizedUrl] = name]
              /\ reply' = AddFeedReply("return", TRUE, url, name)
    /\ UNCHANGED <<cache, phase, site, callUrl, cachedSnap, retryIdx, outcomes,
                   delays, sleepLeft, taskResult, callResult, waiting, running,
                   starts, probe, mem, parse, articles, articleState, view, sideVars>>

\* RSSReader.fetchWithCache(url, kind) up to `await queuedFetch(...)`.
fetchWithCache(c, url) ==
  LET normalizedUrl == URLParse(url).href IN
  /\ CanBegin(c)
  /\ URLParse(url).ok
  /\ site' = [site EXCEPT ![c] = "feed"]
  /\ callUrl' = [callUrl EXCEPT ![c] = normalizedUrl]
  /\ cachedSnap' = [cachedSnap EXCEPT ![c] = cache[normalizedUrl]]
  /\ queuedFetch(c, phase)
  /\ UNCHANGED <<feeds, feedsTable, cache, retryIdx, outcomes, delays,
                 sleepLeft, taskResult, callResult, probe>>

\* fetchWithCache called on its own.
FetchWithCacheBegin(c, url) ==
  /\ fetchWithCache(c, url)
  /\ UNCHANGED extVars

\* POST /api/article/materialize with the body {url, feedUrl, title}, up
\* to `await queuedFetch(...)`.
Materialize(c, url, feedUrl, title) ==
  /\ CanBegin(c)
  /\ site' = [site EXCEPT ![c] = "article"]
  /\ reqBody' = [reqBody EXCEPT ![c] = [feedUrl |-> feedUrl, title |-> title]]
  /\ IF URLParse(url).ok
       THEN /\ callUrl' = [callUrl EXCEPT ![c] = URLParse(url).href]
            /\ queuedFetch(c, phase)
            /\ UNCHANGED callResult
       ELSE \* new URL(url) throws: the handler's catch answers 500
            /\ callUrl' = callUrl
            /\ phase' = [phase EXCEPT ![c] = "done"]
            /\ callResult' = [callResult EXCEPT ![c] =
                 [NoCallResult EXCEPT !.kind = "return", !.status = 500,
                                      !.error = TRUE, !.errStatus = NoStatus]]
            /\ UNCHANGED queueVars
  /\ UNCHANGED <<feeds, feedsTable, cache, cachedSnap, retryIdx, outcomes,
                 delays, sleepLeft, taskResult, probe, mem, parse, reply,
                 articles, articleState, view, activity, notes, docs, assets,
                 jobs, pass, adding>>

\* The request whose body gives the url only.
MaterializeBegin(c, url) == Materialize(c, url, "", "")

\* downloadResources: one image reference's `await queuedFetch(downloadUrl)`.
ResourceBegin(c, url) ==
  /\ CanBegin(c)
  /\ site' = [site EXCEPT ![c] = "resource"]
  /\ callUrl' = [callUrl EXCEPT ![c] = url]
  /\ queuedFetch(c, phase)
  /\ UNCHANGED <<feeds, feedsTable, cache, cachedSnap, retryIdx, outcomes,
                 delays, sleepLeft, taskResult, callResult, probe, extVars>>


(***************************************************************************)
(* The task of queuedFetch: withRetry around one fetch.                    *)
(***************************************************************************)
\* What the transport answers to one attempt: an HTTP response, or no
\* response at all (fetch rejects; status NoStatus).
Resp(status, body, etag) ==
  IF ResOk(status) THEN [status |-> status, etag |-> etag, body |-> body]
  ELSE [status |-> status, etag |-> "", body |-> ""]

\* withRetry's `throw lastErr`: the error the loop kept.
LastErrFirst(outs) == outs[1]

LastErr(outs) == outs[Len(outs)]

\* withRetry's `i === retries`.
BudgetSpent(i) == i = retries

\* One attempt of call c ends with answer r.
AttemptReturns(c, r) ==
  LET outs == Append(outcomes[c], r) IN
  /\ phase[c] = "attempt"
  /\ outcomes' = [outcomes EXCEPT ![c] = outs]
  /\ IF ResOk(r.status)
       THEN \* taskFn returns res: the task resolves
            /\ taskResult' = [taskResult EXCEPT ![c] =
                 [kind |-> "resolved", status |-> r.status, etag |-> r.etag,
                  body |-> r.body]]
            /\ Release(c, [phase EXCEPT ![c] = "settled"])
            /\ UNCHANGED <<delays, sleepLeft>>
       ELSE IF ~shouldRetry(r.status) \/ BudgetSpent(retryIdx[c])
       THEN \* break; throw lastErr
            /\ taskResult' = [taskResult EXCEPT ![c] =
                 [kind |-> "rejected", status |-> LastErr(outs).status,
                  etag |-> "", body |-> ""]]
            /\ Release(c, [phase EXCEPT ![c] = "settled"])
            /\ UNCHANGED <<delays, sleepLeft>>
       ELSE \* await sleep(baseDelayMs * 2^i), inside the queue task
            /\ delays' = [delays EXCEPT ![c] = Append(@, RetryDelay(retryIdx[c]))]
            /\ sleepLeft' = [sleepLeft EXCEPT ![c] = RetryDelay(retryIdx[c])]
            /\ phase' = [phase EXCEPT ![c] = "sleep"]
            /\ UNCHANGED <<taskResult, queueVars>>
  /\ UNCHANGED <<feeds, feedsTable, cache, site, callUrl, cachedSnap, retryIdx,
                 callResult, probe, extVars>>

\* The sleep timer has fired: i++ and the next attempt goes out.
Wake(c) ==
  /\ phase[c] = "sleep"
  /\ sleepLeft[c] = 0
  /\ retryIdx' = [retryIdx EXCEPT ![c] = @ + 1]
  /\ phase' = [phase EXCEPT ![c] = "attempt"]
  /\ UNCHANGED <<feeds, feedsTable, cache, site, callUrl, cachedSnap, outcomes,
                 delays, sleepLeft, taskResult, callResult, queueVars, probe, extVars>>

(***************************************************************************)
(* Time passes up to the next timer: a sleep that ends, or a task start    *)
(* that leaves the queue's window.                                         *)
(***************************************************************************)
Sleepers == { c \in Calls : phase[c] = "sleep" }

Deadlines ==
  { sleepLeft[c] : c \in Sleepers } \cup
  { interval - starts[k] : k \in 1..Len(starts) }

\* d ms pass: sleep timers run down, task starts age and leave the window.
Pass(d) ==
  LET aged == [k \in 1..Len(starts) |-> starts[k] + d]
      kept == SelectSeq(aged, LAMBDA a : a < interval)
  IN
  /\ sleepLeft' = [c \in Calls |->
                     IF c \in Sleepers THEN sleepLeft[c] - d ELSE sleepLeft[c]]
  /\ Admit(phase, waiting, running, kept)
  /\ UNCHANGED <<feeds, feedsTable, cache, site, callUrl, cachedSnap, retryIdx,
                 outcomes, delays, taskResult, callResult, probe>>

Advance ==
  /\ \A c \in Sleepers : sleepLeft[c] > 0
  /\ Deadlines # {}
  /\ Pass(Min(Deadlines))
  /\ UNCHANGED extVars


(***************************************************************************)
(* RSSReader.fetchWithCache after `await queuedFetch(...)`.                *)
(***************************************************************************)
Returned(status, body, fromCache, error, errStatus) ==
  [kind |-> "return", status |-> status, body |-> body,
   fromCache |-> fromCache, error |-> error, errStatus |-> errStatus]

Thrown(errStatus) ==
  [kind |-> "throw", status |-> 0, body |-> "", fromCache |-> FALSE,
   error |-> TRUE, errStatus |-> errStatus]

\* stmtUpsertCache.run(row)
UpsertCache(old, status, etag, body) ==
  [present |-> TRUE, status |-> status, etag |-> etag, body |-> body,
   fetched_at |-> old.fetched_at + 1]

\* The catch block's second half: fall back to the cache if present.
FallbackAlwaysThrows(cached, errStatus) == Thrown(errStatus)

Fallback(cached, errStatus) ==
  IF cached.present
    THEN Returned(IF cached.status = 0 THEN 200 ELSE cached.status,
                  cached.body, TRUE, TRUE, errStatus)
    ELSE Thrown(errStatus)

\* The catch block: e is the error queuedFetch, arrayBuffer() or the upsert threw.
OnFetchError(cached, errStatus) ==
  IF errStatus = 304 /\ cached.present
    THEN Returned(304, cached.body, TRUE, FALSE, 0)
    ELSE Fallback(cached, errStatus)

\* readOk: whether `await res.arrayBuffer()` delivered the body.
FetchWithCacheFinish(c, readOk) ==
  LET t == taskResult[c]
      cached == cachedSnap[c]
  IN
  /\ phase[c] = "settled"
  /\ site[c] = "feed"
  /\ phase' = [phase EXCEPT ![c] = "done"]
  /\ IF t.kind = "resolved" /\ readOk
       THEN /\ cache' = [cache EXCEPT ![callUrl[c]] =
                            UpsertCache(@, t.status, t.etag, t.body)]
            /\ callResult' = [callResult EXCEPT ![c] =
                            Returned(t.status, t.body, FALSE, FALSE, 0)]
       ELSE /\ cache' = cache
            /\ callResult' = [callResult EXCEPT ![c] =
                 OnFetchError(cached,
                   IF t.kind = "resolved" THEN NoStatus ELSE t.status)]
  /\ UNCHANGED <<feeds, feedsTable, site, callUrl, cachedSnap, retryVars,
                 queueVars, probe, extVars>>

(***************************************************************************)
(* The articles table.  A row keeps id, feed_url, guid, link, title and    *)
(* markdown_path; author, published_at, content_html and content_snippet   *)
(* are written like title.  NULL is "".                                    *)
(***************************************************************************)
\* stableId(feedUrl, key): a digest of the pair, taken to be collision-free.
stableId(feedUrl, key) == <<feedUrl, key>>

\* a || b
Or(a, b) == IF a # "" THEN a ELSE b

\* COALESCE(excluded.markdown_path, articles.markdown_path)
TakeExcluded(excluded, old) == excluded

Coalesce(excluded, old) == IF excluded # "" THEN excluded ELSE old

\* INSERT INTO articles ... without the conflict clause.
InsertArticle(table, row) == Append(table, row)

\* stmtUpsertArticle.run(row)
stmtUpsertArticle(table, row) ==
  IF \E k \in 1..Len(table) : table[k].id = row.id
    THEN [k \in 1..Len(table) |->
            IF table[k].id = row.id
              THEN [table[k] EXCEPT
                      !.title = row.title,
                      !.markdown_path = Coalesce(row.markdown_path, @)]
              ELSE table[k]]
    ELSE Append(table, row)

\* The file the materialize handler writes: ARTICLES_DIR/y/m/<slug>.md, the
\* slug made of the host name and the last path segment (no title given).
MarkdownFile(u) ==
  CASE u.hostname = "intranet.corp" -> "articles/intranet.corp-feed.md"
    [] u.hostname = "feed.example" -> "articles/feed.example-rss.md"
    [] OTHER -> "articles/" \o u.hostname \o "-undefined.md"

\* The row the materialize handler upserts for the article at href.
MaterializedRow(href) ==
  LET u == URLParse(href) IN
  [id |-> stableId(Origin(u), href), feed_url |-> Origin(u), guid |-> "",
   link |-> href, title |-> "", markdown_path |-> MarkdownFile(u)]

\* stmtLogActivity.run(type, articleId, payload)
logNothing(log, type, articleId) == log

stmtLogActivity(log, type, articleId) ==
  Append(log, [type |-> type, article_id |-> articleId])

\* stmtGetState.get(id) finding no row.
noState(id) == [article_id |-> id, is_read |-> 0, is_favorite |-> 0]

\* stmtGetState.get(id), or the state of an article that has no row
GetState(id) ==
  IF \E k \in 1..Len(articleState) : articleState[k].article_id = id
    THEN articleState[CHOOSE k \in 1..Len(articleState) :
                        articleState[k].article_id = id]
    ELSE [article_id |-> id, is_read |-> 0, is_favorite |-> 0]

(***************************************************************************)
(* Documents.  A text is a sequence of tokens: a line break, a double      *)
(* quote, a backslash, or a run of other characters.  A Markdown document  *)
(* is its front-matter block and the image references of its body.         *)
(***************************************************************************)
NL == "\n"
DQ == "\""
BS == "\\"

\* JSON.stringify(s) of a string without escaping: only the quotes are added.
StringifyRaw(s) == <<DQ>> \o s \o <<DQ>>

RECURSIVE Escaped(_)
Escaped(s) ==
  IF s = <<>> THEN <<>>
  ELSE (CASE Head(s) = NL -> <<BS, "n">>
          [] Head(s) = DQ -> <<BS, DQ>>
          [] Head(s) = BS -> <<BS, BS>>
          [] OTHER -> <<Head(s)>>) \o Escaped(Tail(s))

\* JSON.stringify(s) of a string
JSONstringify(s) == <<DQ>> \o Escaped(s) \o <<DQ>>

NoJson == <<"SyntaxError">>

RECURSIVE Unescaped(_)
Unescaped(s) ==
  IF s = <<>> THEN <<>>
  ELSE IF Head(s) = BS
    THEN IF Len(s) < 2 THEN NoJson
         ELSE LET rest == Unescaped(Tail(Tail(s)))
                  c == IF s[2] = "n" THEN NL ELSE s[2]
              IN IF s[2] \notin {"n", DQ, BS} \/ rest = NoJson THEN NoJson
                 ELSE <<c>> \o rest
  ELSE IF Head(s) \in {DQ, NL} THEN NoJson
  ELSE LET rest == Unescaped(Tail(s)) IN
       IF rest = NoJson THEN NoJson ELSE <<Head(s)>> \o rest

\* JSON.parse(t) of a text that should hold one JSON string; NoJson when it
\* throws.
JSONparse(t) ==
  IF Len(t) >= 2 /\ t[1] = DQ /\ t[Len(t)] = DQ
    THEN Unescaped(SubSeq(t, 2, Len(t) - 1))
    ELSE NoJson

RECURSIVE Join(_)
\* lines.join('\n')
Join(lines) ==
  IF lines = <<>> THEN <<>>
  ELSE IF Len(lines) = 1 THEN lines[1]
  ELSE lines[1] \o <<NL>> \o Join(Tail(lines))

RECURSIVE Split(_, _)
\* text.split('\n'); cur is the line being read
Split(text, cur) ==
  IF text = <<>> THEN <<cur>>
  ELSE IF Head(text) = NL THEN <<cur>> \o Split(Tail(text), <<>>)
  ELSE Split(Tail(text), Append(cur, Head(text)))

\* The entries of the materialize handler's frontMatter, in order; "" and
\* <<>> stand for a field the request did not give.
FrontMatterEntries(title, href, feedUrl) ==
  << <<"title: ", title>>, <<"url: ", <<href>> >>,
     <<"feed_url: ", IF feedUrl = "" THEN <<>> ELSE <<feedUrl>> >>,
     <<"published_at: ", <<>> >>, <<"fetched_at: ", <<"now">> >>,
     <<"source: ", <<"html">> >> >>

\* .filter(([, v]) => v != null && v !== '').map(([k, v]) => `${k}: ${JSON.stringify(v)}`)
YamlLines(entries) ==
  LET kept == SelectSeq(entries, LAMBDA e : e[2] # <<>>) IN
  [k \in 1..Len(kept) |-> <<kept[k][1]>> \o JSONstringify(kept[k][2])]

\* `---\n${yaml}\n---\n\n`, the head of the document the handler writes.
FrontMatterText(title, href, feedUrl) ==
  <<"---", NL>> \o Join(YamlLines(FrontMatterEntries(title, href, feedUrl)))
    \o <<NL, "---", NL, NL>>

\* content.match(/^---\n([\s\S]+?)\n---/): the shortest non-empty block.
FmEnds(text) ==
  { k \in 4..(Len(text) - 1) : text[k] = NL /\ text[k + 1] = "---" }

fmMatch(text) ==
  IF Len(text) >= 2 /\ text[1] = "---" /\ text[2] = NL /\ FmEnds(text) # {}
    THEN [found |-> TRUE,
          fm |-> SubSeq(text, 3, (CHOOSE k \in FmEnds(text) :
                                    \A j \in FmEnds(text) : k <= j) - 1)]
    ELSE [found |-> FALSE, fm |-> <<>>]

NoSourceUrl == <<>>

\* downloadResources: the source URL read from the front matter, or null.
SourceUrlOf(text) ==
  LET m == fmMatch(text)
      lines == Split(m.fm, <<>>)
      urlLines == { k \in 1..Len(lines) :
                      lines[k] # <<>> /\ lines[k][1] = "url: " }
  IN
  IF ~m.found \/ urlLines = {} THEN NoSourceUrl
  ELSE LET urlLine == lines[CHOOSE k \in urlLines : \A j \in urlLines : k <= j]
           v == JSONparse(Tail(urlLine))
       IN IF v = NoJson THEN NoSourceUrl ELSE v

(***************************************************************************)
(* downloadResources (collector.js).  An image reference is its alt text,  *)
(* its URL and whether it is written with a title, ![alt](url "title").    *)
(***************************************************************************)
Image(alt, url, titled) == [alt |-> alt, url |-> url, titled |-> titled]

ImageA == "http://img.example/a.png"
ImageB == "http://img.example/b"

\* htmlToMarkdown(html): the image references of the converted page.
htmlToMarkdown(html) ==
  CASE html = "page1" -> <<Image("logo", ImageA, FALSE)>>
    [] html = "page2" -> <<Image("", ImageA, FALSE), Image("", ImageB, TRUE)>>
    [] html = "page3" -> <<Image("", ImageA, FALSE), Image("", ImageB, FALSE)>>
    [] OTHER -> <<>>

\* safeFileName(name): a sanitized form; the names drawn need no change.
safeFileName(name) == name

\* crypto.createHash('md5').update(url).digest('hex').slice(0, 8), taken to
\* be collision-free.
urlHash(url) == "[" \o url \o "]"

\* path.basename(markdownPath, '.md') + '-assets', for a file of "articles/".
assetsDirName(markdownPath) ==
  SubSeq(markdownPath, 10, Len(markdownPath) - 3) \o "-assets"

\* res.headers.get('content-type'): the transport marks an image by its body.
ContentType(body) == IF body = "png" THEN "image/png" ELSE "text/html"

\* The extension: from the content type, else from the path of `new URL(url)`,
\* which throws when the reference is relative.
Extension(body, url) ==
  IF ContentType(body) = "image/png" THEN [ok |-> TRUE, ext |-> ".png"]
  ELSE IF ~startsWith(url, "http") THEN [ok |-> FALSE, ext |-> ""]
  ELSE IF Len(url) > 4 /\ SubSeq(url, Len(url) - 3, Len(url)) = ".png"
    THEN [ok |-> TRUE, ext |-> ".png"]
  ELSE [ok |-> TRUE, ext |-> ""]

\* new URL(url, sourceUrl).toString() for a relative path and a page at the
\* top of its site.
Resolve(url, sourceUrl) == Origin(URLParse(sourceUrl[1])) \o "/" \o url

\* updatedContent.split(`(${url})`).join(`(${relativePath})`) replacing every
\* occurrence of "(url)": a reference written with a title reads (url "title").
RewriteEvery(refs, url, relativePath) ==
  [k \in 1..Len(refs) |-> [refs[k] EXCEPT !.url = relativePath]]

Rewrite(refs, url, relativePath) ==
  [k \in 1..Len(refs) |->
     IF refs[k].url = url /\ ~refs[k].titled
       THEN [refs[k] EXCEPT !.url = relativePath]
       ELSE refs[k]]

\* A downloadResources pass: `front` and `content` are the document as read
\* (its front matter and the references of its body), `updated` is
\* updatedContent, idx is the match whose fetch is awaited by call `call`.
NewJob(markdownPath, articleId) ==
  [path |-> markdownPath, articleId |-> articleId, state |-> "running",
   front |-> <<>>, content |-> <<>>, updated |-> <<>>,
   sourceUrl |-> NoSourceUrl, idx |-> 0,
   call |-> 0, downloaded |-> {}, fetched |-> <<>>, wrote |-> {}]

\* downloadResources(...).catch(err => console.error(...)) with no handler.
uncaught(j) == [j EXCEPT !.state = "unhandled", !.call = 0]

\* downloadResources(...).catch(err => console.error(...))
catchAndLog(j) == [j EXCEPT !.state = "logged", !.call = 0]

\* The match k of pass j leads to a fetch: its URL was not downloaded in
\* this pass, and it is absolute or the source URL is known.
NeedsFetch(j, k) ==
  /\ j.content[k].url \notin j.downloaded
  /\ (startsWith(j.content[k].url, "http") \/ j.sourceUrl # NoSourceUrl)

NextFetch(j, i) ==
  LET S == { k \in i..Len(j.content) : NeedsFetch(j, k) } IN
  IF S = {} THEN 0 ELSE Min(S)

downloadUrl(j, k) ==
  IF startsWith(j.content[k].url, "http") THEN j.content[k].url
  ELSE Resolve(j.content[k].url, j.sourceUrl)

Put(n, j) ==
  IF n > Len(jobs) THEN Append(jobs, j) ELSE [jobs EXCEPT ![n] = j]

\* No pass is started or moved: the files fs and the phases ph are kept.
NoPassStep(fs, ph) ==
  /\ jobs' = jobs
  /\ docs' = fs
  /\ phase' = ph
  /\ UNCHANGED <<site, callUrl, queueVars>>

\* Pass n goes on from match i, over the files fs: to its next
\* `await queuedFetch(downloadUrl)`, or to its end, where the document is
\* written if it has changed (fsOk: the write succeeds).
Continue(n, j, i, fs, ph, fsOk) ==
  LET k == NextFetch(j, i)
      free == { c \in Calls : ph[c] = "idle" }
  IN
  IF k # 0
    THEN /\ free # {}
         /\ LET c == Min(free) IN
            /\ jobs' = Put(n, [j EXCEPT !.idx = k, !.call = c,
                                        !.fetched = Append(@, downloadUrl(j, k))])
            /\ site' = [site EXCEPT ![c] = "resource"]
            /\ callUrl' = [callUrl EXCEPT ![c] = downloadUrl(j, k)]
            /\ queuedFetch(c, ph)
            /\ docs' = fs
    ELSE /\ IF j.updated = j.content
              THEN /\ jobs' = Put(n, [j EXCEPT !.state = "done", !.call = 0])
                   /\ docs' = fs
            ELSE IF fsOk
              THEN /\ jobs' = Put(n, [j EXCEPT !.state = "done", !.call = 0])
                   \* fs.writeFileSync(markdownPath, updatedContent)
                   /\ docs' = [p \in DOMAIN fs \cup {j.path} |->
                                IF p = j.path
                                  THEN [front |-> j.front, refs |-> j.updated]
                                  ELSE fs[p]]
            ELSE /\ jobs' = Put(n, catchAndLog(j))
                 /\ docs' = fs
         /\ phase' = ph
         /\ UNCHANGED <<site, callUrl, queueVars>>

\* downloadResources(markdownPath, articleId), called detached: the pass
\* runs to its first await within the caller's step.  fs is the files as the
\* caller leaves them, ph the phases.
downloadResources(markdownPath, articleId, fs, ph) ==
  LET n == Len(jobs) + 1
      j0 == NewJob(markdownPath, articleId)
  IN
  IF markdownPath = "" \/ markdownPath \notin DOMAIN fs
    THEN \* Markdown file not found
         /\ jobs' = Append(jobs, [j0 EXCEPT !.state = "done"])
         /\ docs' = fs
         /\ phase' = ph
         /\ UNCHANGED <<site, callUrl, queueVars>>
    ELSE \E fsOk \in BOOLEAN :
           IF ~fsOk
             THEN \* readFileSync or mkdirSync throws: the promise rejects
                  /\ jobs' = Append(jobs, catchAndLog(j0))
                  /\ docs' = fs
                  /\ phase' = ph
                  /\ UNCHANGED <<site, callUrl, queueVars>>
             ELSE Continue(n, [j0 EXCEPT !.front = fs[markdownPath].front,
                                         !.content = fs[markdownPath].refs,
                                         !.updated = fs[markdownPath].refs,
                                         !.sourceUrl = SourceUrlOf(fs[markdownPath].front)],
                           1, fs, ph, TRUE)

\* downloadResources after `await queuedFetch(downloadUrl)` of pass n: the
\* bytes are written and the document text rewritten, or the failure is
\* caught and logged; then the loop goes on.  readOk: arrayBuffer() and the
\* asset write succeed; fsOk: the final write of the document succeeds.
DownloadFetched(n, readOk, fsOk) ==
  LET j == jobs[n]
      c == j.call
      t == taskResult[c]
      ref == j.content[j.idx]
      ext == Extension(t.body, ref.url)
      ok == t.kind = "resolved" /\ ext.ok /\ readOk
      filename == safeFileName(Or(ref.alt, "image")) \o "-" \o urlHash(ref.url)
                    \o ext.ext
      relativePath == assetsDirName(j.path) \o "/" \o filename
      localPath == "articles/" \o relativePath
      j2 == IF ok
              THEN [j EXCEPT !.updated = Rewrite(@, ref.url, relativePath),
                             !.downloaded = @ \cup {ref.url},
                             !.wrote = @ \cup {localPath}]
              ELSE j
  IN
  /\ j.state = "running"
  /\ c # 0
  /\ phase[c] = "settled"
  /\ callResult' = [callResult EXCEPT ![c] =
       IF ok THEN Returned(t.status, t.body, FALSE, FALSE, 0)
       ELSE Returned(0, "", FALSE, TRUE,
                     IF t.kind = "resolved" THEN NoStatus ELSE t.status)]
  /\ assets' = IF ok THEN assets \cup {localPath} ELSE assets
  /\ Continue(n, j2, j.idx + 1, docs, [phase EXCEPT ![c] = "done"], fsOk)
  /\ UNCHANGED <<feeds, feedsTable, cache, cachedSnap, retryVars, probe, mem,
                 parse, reply, articles, articleState, view, activity, notes,
                 pass, adding, reqBody>>

\* path.join(dir, `${slug}.md`) with slug = safeFileName(title || host-segment).
MaterializedFile(title, u) ==
  IF title # "" THEN "articles/" \o safeFileName(title) \o ".md"
  ELSE MarkdownFile(u)

\* The row the materialize handler upserts for the body {url: href, feedUrl,
\* title}: articleFeedUrl = feedUrl || u.origin, id = stableId of it and href.
UpsertedRow(href, feedUrl, title) ==
  LET u == URLParse(href)
      articleFeedUrl == Or(feedUrl, Origin(u))
  IN
  [id |-> stableId(articleFeedUrl, href), feed_url |-> articleFeedUrl,
   guid |-> "", link |-> href, title |-> title,
   markdown_path |-> MaterializedFile(title, u)]

\* POST /api/article/materialize after `await queuedFetch(...)`: `await
\* htmlRes.text()`, the document is written, the feed and article rows are
\* stored, the resources of a favorite are fetched (detached), the activity
\* is logged; then the answer (200, or 500 from the handler's catch).
MaterializeFetched(c, readOk) ==
  LET t == taskResult[c]
      u == URLParse(callUrl[c])
      title == reqBody[c].title
      feedUrl == reqBody[c].feedUrl
      row == UpsertedRow(callUrl[c], feedUrl, title)
      filePath == row.markdown_path
      articleId == row.id
      md == [front |-> FrontMatterText(IF title = "" THEN <<>> ELSE <<title>>,
                                       callUrl[c], feedUrl),
             refs |-> htmlToMarkdown(t.body)]
      fs == [p \in DOMAIN docs \cup {filePath} |->
               IF p = filePath THEN md ELSE docs[p]]
      ph == [phase EXCEPT ![c] = "done"]
  IN
  /\ phase[c] = "settled"
  /\ site[c] = "article"
  /\ IF t.kind = "resolved" /\ readOk
       THEN /\ callResult' = [callResult EXCEPT ![c] =
                 Returned(200, t.body, FALSE, FALSE, 0)]
            \* INSERT OR IGNORE INTO feeds(url, name)
            /\ feedsTable' = [feedsTable EXCEPT ![row.feed_url] =
                                IF @ = "-" THEN u.hostname ELSE @]
            /\ articles' = stmtUpsertArticle(articles, row)
            /\ IF GetState(articleId).is_favorite # 0
                 THEN downloadResources(filePath, articleId, fs, ph)
                 ELSE NoPassStep(fs, ph)
            /\ activity' = stmtLogActivity(activity, "materialize", articleId)
       ELSE /\ callResult' = [callResult EXCEPT ![c] =
                 Returned(500, "", FALSE, TRUE,
                          IF t.kind = "resolved" THEN NoStatus ELSE t.status)]
            /\ NoPassStep(docs, ph)
            /\ UNCHANGED <<feedsTable, articles, activity>>
  /\ UNCHANGED <<feeds, cache, cachedSnap, retryVars, probe, mem, parse, reply,
                 articleState, view, notes, assets, pass, adding, reqBody>>

\* downloadResources after `await queuedFetch(downloadUrl)`: the bytes are
\* kept, or the failure is caught and logged and the pass goes on.
ResourceFetched(c, readOk) ==
  LET t == taskResult[c] IN
  /\ phase[c] = "settled"
  /\ site[c] = "resource"
  /\ phase' = [phase EXCEPT ![c] = "done"]
  /\ callResult' = [callResult EXCEPT ![c] =
       IF t.kind = "resolved" /\ readOk
         THEN Returned(t.status, t.body, FALSE, FALSE, 0)
         ELSE Returned(0, "", FALSE, TRUE,
                       IF t.kind = "resolved" THEN NoStatus ELSE t.status)]
  /\ UNCHANGED <<feeds, feedsTable, cache, site, callUrl, cachedSnap, retryVars,
                 queueVars, probe, extVars>>

(***************************************************************************)
(* The pipeline: feeds are added, and up to MaxCalls fetches are issued    *)
(* from the three call sites and run through the shared queue.             *)
(***************************************************************************)
\* In Spec call c comes from the call site SiteOf(c).
SiteOf(c) ==
  IF c % 3 = 1 THEN "feed" ELSE IF c % 3 = 2 THEN "article" ELSE "resource"

CallsOf(s) == { c \in Calls : SiteOf(c) = s }

FeedCandidates == { "http://feed.example/rss" }
ArticleUrls == { "https://intranet.corp/feed", "not a url" }
ImageUrls == { "http://rebind.example/" }
Answers == { Resp(200, "b1", ""), Resp(503, "", "") }

Next ==
  \/ \E u \in FeedCandidates : feeds = <<>> /\ AddFeed(u, "News")
  \/ \E c \in CallsOf("feed"), u \in FeedUrls : FetchWithCacheBegin(c, u)
  \/ \E c \in CallsOf("article"), u \in ArticleUrls : MaterializeBegin(c, u)
  \/ \E c \in CallsOf("resource"), u \in ImageUrls : ResourceBegin(c, u)
  \/ \E c \in Calls, r \in Answers : AttemptReturns(c, r)
  \/ \E c \in Calls : Wake(c)
  \/ Advance
  \/ \E c \in Calls : FetchWithCacheFinish(c, TRUE)
  \/ \E c \in Calls : MaterializeFetched(c, TRUE)
  \/ \E c \in Calls : ResourceFetched(c, TRUE)

Spec == Init /\ [][Next]_vars

(***************************************************************************)
(* SpecRetry: one queuedFetch call (an article fetch) against a transport  *)
(* that may answer any of RetryStatuses to each attempt.                   *)
(***************************************************************************)
RetryStatuses ==
  { NoStatus, 200, 204, 304, 400, 403, 404, 429, 499, 500, 503, 599 }

RetryAnswers ==
  { Resp(st, b, "") : st \in RetryStatuses, b \in {"b1", "b2"} }

NextRetry ==
  \/ \E c \in CallsOf("article") :
       MaterializeBegin(c, "https://intranet.corp/feed")
  \/ \E c \in Calls, r \in RetryAnswers : AttemptReturns(c, r)
  \/ \E c \in Calls : Wake(c)
  \/ Advance
  \/ \E c \in Calls : MaterializeFetched(c, TRUE)

SpecRetry == Init /\ [][NextRetry]_vars

Settled(c) == phase[c] \in {"settled", "done"}

StatusesOf(outs) == [k \in 1..Len(outs) |-> outs[k].status]

\* The retryable failures as the retry policy words them.
NamedRetryable(status) ==
  status = NoStatus \/ status = 429 \/ status \in 500..599

\* C1: a task whose first three attempts fail with 503 has slept exactly
\* 800, 1600 and 3200 ms, is given a fourth attempt, and when that attempt
\* succeeds the task resolves with the fourth attempt's response.
C1_RetryThenSuccess ==
  \A c \in Calls :
    LET outs == outcomes[c] IN
    (Len(outs) >= 3 /\ \A k \in 1..3 : outs[k].status = 503) =>
      /\ delays[c] = <<800, 1600, 3200>>
      /\ Len(outs) <= 4
      /\ Len(outs) = 3 => phase[c] \in {"sleep", "attempt"}
      /\ (Len(outs) = 4 /\ outs[4].status = 200) =>
           /\ Settled(c)
           /\ taskResult[c] = [kind |-> "resolved", status |-> 200,
                               etag |-> outs[4].etag, body |-> outs[4].body]

C1_Witness ==
  \E c \in Calls :
    /\ Settled(c)
    /\ StatusesOf(outcomes[c]) = <<503, 503, 503, 200>>
    /\ taskResult[c].kind = "resolved"
    /\ taskResult[c].body = "b2"

\* C2: an attempt is followed by another one only if it failed with no
\* status, 429 or 5xx; such a failure is final only when the budget is
\* spent; any other failed first attempt rejects the task after that one
\* attempt and no delay.
C2_RetryIffRetryable ==
  \A c \in Calls :
    LET outs == outcomes[c]
        n == Len(outs)
    IN
    /\ \A k \in 1..(n - 1) :
         ~ResOk(outs[k].status) /\ NamedRetryable(outs[k].status)
    /\ phase[c] = "sleep" => n >= 1 /\ NamedRetryable(outs[n].status)
    /\ (Settled(c) /\ n >= 1 /\ ~ResOk(outs[n].status)
          /\ NamedRetryable(outs[n].status)) => n = retries + 1
    /\ (n >= 1 /\ ~ResOk(outs[1].status) /\ ~NamedRetryable(outs[1].status)) =>
         /\ Settled(c)
         /\ n = 1
         /\ delays[c] = <<>>
         /\ taskResult[c].kind = "rejected"
         /\ taskResult[c].status = outs[1].status

C2_Witness ==
  \E c \in Calls :
    /\ Settled(c)
    /\ StatusesOf(outcomes[c]) = <<429, 404>>
    /\ Len(delays[c]) = 1
    /\ taskResult[c].kind = "rejected"

\* C3: a task never makes more than retries + 1 attempts; when every
\* attempt fails retryably it makes retries + 1 attempts and retries delays
\* and rejects with the error of the last attempt.
C3_BudgetAndLastError ==
  \A c \in Calls :
    LET outs == outcomes[c]
        n == Len(outs)
    IN
    /\ n <= retries + 1
    /\ Len(delays[c]) <= retries
    /\ (Settled(c) /\ n >= 1
          /\ \A k \in 1..n : ~ResOk(outs[k].status) /\ NamedRetryable(outs[k].status)) =>
         /\ n = retries + 1
         /\ Len(delays[c]) = retries
         /\ taskResult[c].kind = "rejected"
         /\ taskResult[c].status = outs[n].status

C3_Witness ==
  \E c \in Calls :
    /\ Settled(c)
    /\ StatusesOf(outcomes[c]) = <<503, NoStatus, 429, 500>>
    /\ taskResult[c].kind = "rejected"
    /\ taskResult[c].status = 500

(***************************************************************************)
(* Claims on the shared queue and the call sites, checked under Spec.      *)
(***************************************************************************)
\* C4: every network attempt of every call site runs inside a task the
\* shared queue has started; at most `concurrency` tasks are in flight and
\* at most `intervalCap` tasks were started in the last `interval` ms.
C4_SharedQueueBounds ==
  /\ \A c \in Calls : phase[c] \in {"attempt", "sleep"} => c \in running
  /\ \A c \in Calls : phase[c] = "queued" <=> c \in waiting
  /\ Cardinality(running) <= concurrency
  /\ Cardinality({ c \in Calls : phase[c] = "attempt" }) <= concurrency
  /\ Len(starts) <= intervalCap
  /\ \A k \in 1..Len(starts) : starts[k] < interval

C4_Witness ==
  /\ waiting # {}
  /\ Cardinality(running) = concurrency
  /\ { site[c] : c \in running \cup waiting } = {"feed", "article", "resource"}

\* C5: a task waiting out its backoff delay holds no concurrency slot, and
\* each retry attempt is started by the queue's admission like a new task.
C5_RetriesReenterGate ==
  [][\A c \in Calls :
       /\ phase[c] = "sleep" => c \notin running
       /\ (phase[c] = "sleep" /\ phase'[c] = "attempt") =>
            /\ c \notin running
            /\ c \in running'
            /\ Len(starts') >= 1
            /\ starts'[Len(starts')] = 0]_vars

\* The validator's verdict on a URL, for some answer the resolver may give.
ValidatorAccepts(url) ==
  \E ans \in DnsAnswers(URLParse(url).hostname) :
    validateHttpUrl(url, AllowPrivateFeeds, ans).ok

\* C6: no URL the validator would reject is ever handed to the fetch queue.
C6_ValidationPrecedesQueueing ==
  \A c \in waiting \cup running : ValidatorAccepts(callUrl[c])

(***************************************************************************)
(* SpecValidate: validateHttpUrl applied to every URL, override setting    *)
(* and resolver answer of the probe sets.                                  *)
(***************************************************************************)
ProbeOctetsA ==
  { 0, 1, 9, 10, 11, 126, 127, 128, 168, 169, 170, 171, 172, 173, 191, 192, 193, 255 }
ProbeOctetsB == { 0, 15, 16, 17, 31, 32, 167, 168, 169, 253, 254, 255 }
\* 0, 1, fc, fd, fc0, fd0, 2001, fbff, fc00, fcff, fd00, fdff, fe00, fe7f,
\* fe80, fe81, febf, fec0, ff00
ProbeHextets ==
  { 0, 1, 252, 253, 4032, 4048, 8193, 64511, 64512, 64767, 64768, 65023,
    65024, 65151, 65152, 65153, 65215, 65216, 65280 }

ProbeAddrs ==
  { V4(a, b) : a \in ProbeOctetsA, b \in ProbeOctetsB } \cup
  { V6(h1, h8) : h1 \in ProbeHextets, h8 \in {0, 1, 2} }

ProbeAnswers ==
  {DnsFailed} \cup
  { DnsOk({x}) : x \in ProbeAddrs } \cup
  { DnsOk({x, y}) : x \in ProbeAddrs, y \in {V4(93, 184), V4(10, 0)} }

InitValidate ==
  /\ InitPipeline
  /\ \E u \in RawUrls, a \in BOOLEAN, ans \in ProbeAnswers :
       probe = [NoProbe EXCEPT !.url = u, !.allowPrivate = a, !.ans = ans]

ValidateProbe ==
  /\ probe.out.kind = "none"
  /\ probe' = [probe EXCEPT
                 !.out = validateHttpUrl(probe.url, probe.allowPrivate, probe.ans)]
  /\ UNCHANGED <<feeds, feedsTable, cache, phase, site, callUrl, cachedSnap,
                 retryVars, callResult, queueVars, extVars>>

SpecValidate == InitValidate /\ [][ValidateProbe]_vars

\* The private, loopback and link-local ranges as the validator's contract
\* names them: 10/8, 127/8, 169.254/16, 172.16/12, 192.168/16, 0/8, ::1,
\* fe80::/10 and fc00::/7.
InNamedRange(ip) ==
  IF ip.fam = 4
    THEN \/ ip.a = 10
         \/ ip.a = 127
         \/ (ip.a = 169 /\ ip.b = 254)
         \/ (ip.a = 172 /\ ip.b \in 16..31)
         \/ (ip.a = 192 /\ ip.b = 168)
         \/ ip.a = 0
    ELSE \/ (ip.h1 = 0 /\ ip.h8 = 1)
         \/ ip.h1 \in 65152..65215
         \/ ip.h1 \in 64512..65023

ProbeIsWeb ==
  URLParse(probe.url).ok /\ URLParse(probe.url).protocol \in {"http:", "https:"}

\* C7: for an http/https URL, with the override unset the verdict is not-ok
\* when some resolved address lies in a named range and ok when none does;
\* with the override set it is ok and nothing is resolved.
C7_PrivateRangesRejected ==
  (probe.out.kind # "none" /\ ProbeIsWeb) =>
    /\ (~probe.allowPrivate /\ ~probe.ans.failed) =>
         /\ (\E x \in probe.ans.addrs : InNamedRange(x)) => ~probe.out.ok
         /\ (\A x \in probe.ans.addrs : ~InNamedRange(x)) => probe.out.ok
    /\ probe.allowPrivate => probe.out.ok /\ probe.out.lookups = 0

\* C8: the validator returns (never throws); a malformed URL or a scheme
\* other than http/https is not-ok whatever the override; with the override
\* unset a failed lookup is not-ok after that single lookup.
C8_FailsClosed ==
  probe.out.kind # "none" =>
    /\ probe.out.kind = "return"
    /\ probe.out.lookups <= 1
    /\ ~URLParse(probe.url).ok => ~probe.out.ok /\ probe.out.lookups = 0
    /\ (URLParse(probe.url).ok
          /\ URLParse(probe.url).protocol \notin {"http:", "https:"}) =>
         ~probe.out.ok /\ probe.out.lookups = 0
    /\ (ProbeIsWeb /\ ~probe.allowPrivate /\ probe.ans.failed) =>
         ~probe.out.ok /\ probe.out.lookups = 1

C8_Witness ==
  /\ probe.out.kind = "return"
  /\ probe.allowPrivate
  /\ probe.url = "ftp://files.example/x"
  /\ ~probe.out.ok


(***************************************************************************)
(* SpecCache: up to CacheCalls fetchWithCache calls for one feed, which    *)
(* may overlap, against a fetch_cache table that holds or does not hold a  *)
(* row from an earlier run.                                                *)
(***************************************************************************)
CachedFeed == "http://feed.example/rss"

PriorRow ==
  [present |-> TRUE, status |-> 200, etag |-> "e0", body |-> "b0", fetched_at |-> 1]

\* The spellings under which the feed's URL is passed to fetchWithCache.
CacheSpellings == { "http://feed.example/rss", "HTTP://FEED.example/rss" }

CacheAnswers ==
  { Resp(200, "b1", "e1"), Resp(200, "b2", "") } \cup
  { Resp(st, "", "") : st \in {304, 404, NoStatus} }

InitCache ==
  /\ feeds = <<>>
  /\ feedsTable = [u \in FeedKeys |-> "-"]
  /\ \E row \in {NoRow, PriorRow} :
       cache = [u \in Hrefs |-> IF u = CachedFeed THEN row ELSE NoRow]
  /\ phase = [c \in Calls |-> "idle"]
  /\ site = [c \in Calls |-> "none"]
  /\ callUrl = [c \in Calls |-> ""]
  /\ cachedSnap = [c \in Calls |-> NoRow]
  /\ retryIdx = [c \in Calls |-> 0]
  /\ outcomes = [c \in Calls |-> <<>>]
  /\ delays = [c \in Calls |-> <<>>]
  /\ sleepLeft = [c \in Calls |-> 0]
  /\ taskResult = [c \in Calls |-> NoTaskResult]
  /\ callResult = [c \in Calls |-> NoCallResult]
  /\ waiting = {}
  /\ running = {}
  /\ starts = <<>>
  /\ probe = NoProbe
  /\ InitExt

NextCache ==
  \/ feeds = <<>> /\ AddFeed(CachedFeed, "News")
  \/ \E c \in 1..CacheCalls, u \in CacheSpellings :
       \* calls are interchangeable: they begin in index order
       /\ \A d \in 1..(c - 1) : phase[d] # "idle"
       /\ URLParse(u).href \in FeedUrls
       /\ FetchWithCacheBegin(c, u)
  \/ \E c \in Calls, r \in CacheAnswers : AttemptReturns(c, r)
  \/ \E c \in Calls : Wake(c)
  \/ Advance
  \/ \E c \in Calls, readOk \in BOOLEAN : FetchWithCacheFinish(c, readOk)

SpecCache == InitCache /\ [][NextCache]_vars

LastStatus(c) == outcomes[c][Len(outcomes[c])].status

\* C9: when a call that read a prior row ends on a 304 answer, it returns
\* that row's body with fromCache = TRUE and leaves the fetch_cache table
\* as it is; a 304 answer is never retried, so a call whose first answer is
\* 304 has made exactly one attempt.
C9_NotModifiedHit ==
  [][\A c \in Calls :
       (/\ phase[c] = "settled"
        /\ phase'[c] = "done"
        /\ site[c] = "feed"
        /\ cachedSnap[c].present
        /\ LastStatus(c) = 304) =>
         /\ callResult'[c].kind = "return"
         /\ callResult'[c].body = cachedSnap[c].body
         /\ callResult'[c].fromCache
         /\ cache' = cache
         /\ \A k \in 1..Len(outcomes[c]) :
              outcomes[c][k].status = 304 => k = Len(outcomes[c])
         /\ outcomes[c][1].status = 304 => Len(outcomes[c]) = 1]_vars

C9_Witness ==
  \E c \in Calls :
    /\ phase[c] = "done"
    /\ cachedSnap[c].present
    /\ StatusesOf(outcomes[c]) = <<304>>
    /\ callResult[c].kind = "return"
    /\ callResult[c].status = 304
    /\ callResult[c].fromCache
    /\ callResult[c].body = cachedSnap[c].body
    /\ cache[callUrl[c]] = cachedSnap[c]

\* The fetch of call c failed other than by "not modified": the task was
\* rejected with another status or none, or the body could not be read.
FetchFailed(c) ==
  \/ taskResult[c].kind = "rejected" /\ taskResult[c].status # 304
  \/ taskResult[c].kind = "resolved" /\ callResult[c].error

FailureStatus(c) ==
  IF taskResult[c].kind = "rejected" THEN taskResult[c].status ELSE NoStatus

\* C10: a finished call whose fetch failed (a retryable failure only after
\* retries + 1 attempts) returns the prior row's body with fromCache = TRUE
\* and the error alongside when it read a prior row, and throws that error
\* when it read none.
C10_StaleOnError ==
  \A c \in Calls :
    (phase[c] = "done" /\ site[c] = "feed" /\ FetchFailed(c)) =>
      /\ (taskResult[c].kind = "rejected" /\ NamedRetryable(taskResult[c].status)) =>
           Len(outcomes[c]) = retries + 1
      /\ cachedSnap[c].present =>
           /\ callResult[c].kind = "return"
           /\ callResult[c].body = cachedSnap[c].body
           /\ callResult[c].fromCache
           /\ callResult[c].error
           /\ callResult[c].errStatus = FailureStatus(c)
      /\ ~cachedSnap[c].present =>
           /\ callResult[c].kind = "throw"
           /\ callResult[c].errStatus = FailureStatus(c)

C10_Witness ==
  \E c \in Calls :
    /\ phase[c] = "done"
    /\ StatusesOf(outcomes[c]) = <<NoStatus, NoStatus, NoStatus, NoStatus>>
    /\ cachedSnap[c].present
    /\ callResult[c].kind = "return"
    /\ callResult[c].fromCache
    /\ callResult[c].error
    /\ callResult[c].body = "b1"

(***************************************************************************)
(* The persistent cache, checked under SpecCache.                          *)
(***************************************************************************)
\* Bodies of the ok responses the transport may give, and of the prior row.
GoodBodies ==
  { r.body : r \in { x \in CacheAnswers : x.status \in 200..299 } }
    \cup { PriorRow.body }

\* A fetch_cache row always holds the body of an ok response that was read
\* in full (or the body it held before); there is at most one row for the
\* feed however its URL is spelled.
CacheHoldsGoodBody ==
  /\ \A u \in DOMAIN cache : cache[u].present =>
        /\ cache[u].body \in GoodBodies
        /\ cache[u].status \in 200..299
  /\ Cardinality({ u \in DOMAIN cache : cache[u].present }) <= 1
  /\ \A u \in DOMAIN cache : cache[u].present => u = CachedFeed

\* The table is written only by a call whose fetch resolved with an ok
\* status and whose body was read; failed and not-modified refreshes leave
\* it as it is.
OnlyGoodFetchWrites ==
  [][cache' # cache =>
       \E c \in Calls :
         /\ phase[c] = "settled" /\ phase'[c] = "done"
         /\ taskResult[c].kind = "resolved"
         /\ taskResult[c].status \in 200..299
         /\ callResult'[c].kind = "return"
         /\ ~callResult'[c].fromCache
         /\ ~callResult'[c].error
         /\ cache'[callUrl[c]].body = taskResult[c].body
         /\ \A u \in DOMAIN cache : u # callUrl[c] => cache'[u] = cache[u]]_vars

\* C11: in every interleaving of fetchWithCache calls the cached body is
\* that of an ok, fully read response, there is one row per normalized URL,
\* and a failed or not-modified refresh never writes to the cache.
C11_PersistentCache == []CacheHoldsGoodBody /\ OnlyGoodFetchWrites

C11_Witness ==
  \E c, d \in Calls :
    /\ c # d
    /\ phase[c] = "done" /\ phase[d] = "done"
    /\ callResult[c].kind = "return" /\ ~callResult[c].fromCache
    /\ callResult[c].body = "b1"
    /\ cachedSnap[d].present /\ cachedSnap[d].body = "b1"
    /\ taskResult[d].kind = "rejected" /\ taskResult[d].status = 404
    /\ cache[CachedFeed].body = "b1"

(***************************************************************************)
(* RSSReader.parseFeed: the in-memory tier in front of fetchWithCache.     *)
(***************************************************************************)
\* `cachedMem && Date.now() - cachedMem.timestamp < this.cacheExpiry`
FreshInclusive(cachedMem) == cachedMem.present /\ cachedMem.age <= cacheExpiry

Fresh(cachedMem) == cachedMem.present /\ cachedMem.age < cacheExpiry

\* The documents rss-parser accepts, and the feed it makes of each.
WellFormed == { "b0", "b1", "b2" }

parseString(xml) ==
  IF xml \in WellFormed
    THEN [kind |-> "return",
          data |-> CASE xml = "b0" -> "feed of b0"
                     [] xml = "b1" -> "feed of b1"
                     [] xml = "b2" -> "feed of b2"]
    ELSE [kind |-> "throw", data |-> ""]

\* The try block after `await this.fetchWithCache(url, 'rss')`.
parseFeedTry(r) ==
  IF r.kind = "throw" THEN [kind |-> "throw", data |-> ""]
  ELSE parseString(r.body)

\* The catch block: log and return null.
parseFeedRethrow(t) ==
  IF t.kind = "throw" THEN [out |-> "throw", data |-> ""]
  ELSE [out |-> "feed", data |-> t.data]

parseFeedCatch(t) ==
  IF t.kind = "throw" THEN [out |-> "null", data |-> ""]
  ELSE [out |-> "feed", data |-> t.data]

\* parseFeed(url) up to its first await, or to its return on a memory hit.
ParseFeedBegin(c, url) ==
  /\ parse[c].out = "none"
  /\ CanBegin(c)
  /\ IF Fresh(mem[url])
       THEN /\ parse' = [parse EXCEPT ![c] =
                 [url |-> url, out |-> "feed", data |-> mem[url].data]]
            /\ UNCHANGED <<feeds, feedsTable, cache, phase, site, callUrl,
                           cachedSnap, retryVars, callResult, queueVars, probe>>
       ELSE IF ~URLParse(url).ok
       THEN \* fetchWithCache's `new URL(url)` throws into parseFeed's catch
            /\ parse' = [parse EXCEPT ![c] =
                 [url |-> url] @@ parseFeedCatch([kind |-> "throw", data |-> ""])]
            /\ UNCHANGED <<feeds, feedsTable, cache, phase, site, callUrl,
                           cachedSnap, retryVars, callResult, queueVars, probe>>
       ELSE /\ parse' = [parse EXCEPT ![c] =
                 [url |-> url, out |-> "pending", data |-> ""]]
            /\ fetchWithCache(c, url)
  /\ UNCHANGED <<mem, reply, articles, articleState, view, sideVars>>

\* parseFeed after fetchWithCache has returned or thrown.
ParseFeedFinish(c) ==
  LET res == parseFeedCatch(parseFeedTry(callResult[c])) IN
  /\ phase[c] = "done"
  /\ parse[c].out = "pending"
  /\ parse' = [parse EXCEPT ![c] = [url |-> parse[c].url] @@ res]
  /\ mem' = IF res.out = "feed"
              THEN [mem EXCEPT ![parse[c].url] =
                      [present |-> TRUE, data |-> res.data, age |-> 0]]
              ELSE mem
  /\ UNCHANGED <<feeds, feedsTable, cache, phase, site, callUrl, cachedSnap,
                 retryVars, callResult, queueVars, probe, reply, articles,
                 articleState, view, sideVars>>

\* Time passes up to the next timer, or to the last millisecond before a
\* memory entry expires, or to its expiry.
MemDeadlines ==
  { cacheExpiry - 1 - mem[u].age :
      u \in { x \in DOMAIN mem : mem[x].present /\ mem[x].age < cacheExpiry - 1 } }
  \cup
  { cacheExpiry - mem[u].age :
      u \in { x \in DOMAIN mem : mem[x].present /\ mem[x].age < cacheExpiry } }

Elapse ==
  /\ \A c \in Sleepers : sleepLeft[c] > 0
  /\ Deadlines \cup MemDeadlines # {}
  /\ LET d == Min(Deadlines \cup MemDeadlines) IN
     /\ Pass(d)
     /\ mem' = [u \in DOMAIN mem |->
                  IF mem[u].present
                    THEN [mem[u] EXCEPT !.age = Min({@ + d, cacheExpiry})]
                    ELSE mem[u]]
  /\ UNCHANGED <<parse, reply, articles, articleState, view, sideVars>>

(***************************************************************************)
(* SpecParse: up to MaxCalls parseFeed calls, which may overlap, while     *)
(* time passes.                                                            *)
(***************************************************************************)
ParseUrls == { "http://feed.example/rss", "not a url" }

ParseAnswers ==
  { Resp(200, "b1", ""), Resp(200, "<rss", ""), Resp(404, "", "") }

NextParse ==
  \/ \E c \in Calls, u \in ParseUrls :
       /\ \A d \in 1..(c - 1) : parse[d].out # "none"
       /\ ParseFeedBegin(c, u)
  \/ \E c \in Calls, r \in ParseAnswers : AttemptReturns(c, r)
  \/ Elapse
  \/ \E c \in Calls, readOk \in BOOLEAN : FetchWithCacheFinish(c, readOk)
  \/ \E c \in Calls : ParseFeedFinish(c)

SpecParse == Init /\ [][NextParse]_vars

\* C12: a parseFeed call made while the memory entry of its URL is less
\* than cacheExpiry ms old returns that entry's data, reads no fetch_cache
\* row and adds no task to the queue; a call made on a miss or at or after
\* expiry goes on to fetchWithCache, which reads the row and queues a task.
C12_MemoryTierFirst ==
  [][\A c \in Calls :
       (parse[c].out = "none" /\ parse'[c].out # "none") =>
         LET u == parse'[c].url
             hit == mem[u].present /\ mem[u].age < cacheExpiry
         IN
         /\ hit =>
              /\ parse'[c].out = "feed"
              /\ parse'[c].data = mem[u].data
              /\ UNCHANGED <<cache, cachedSnap, phase, site, callUrl, waiting,
                             running, starts>>
         /\ (~hit /\ URLParse(u).ok) =>
              /\ parse'[c].out = "pending"
              /\ site'[c] = "feed"
              /\ cachedSnap'[c] = cache[URLParse(u).href]
              /\ c \in waiting' \cup running']_vars

C12_Witness ==
  \E c, d \in Calls :
    /\ c # d
    /\ parse[c].out = "feed" /\ phase[c] = "idle"
    /\ parse[d].out = "pending" /\ phase[d] \in {"queued", "attempt"}
    /\ mem[parse[d].url].present
    /\ mem[parse[d].url].age = cacheExpiry

Feeds == { parseString(x).data : x \in WellFormed }

\* What parseFeed calls have returned, and what the memory tier holds.
ParseFeedReturns ==
  /\ \A c \in Calls :
       parse[c].out \notin {"none", "pending"} =>
         /\ parse[c].out \in {"feed", "null"}
         /\ parse[c].out = "null" <=>
              \/ ~URLParse(parse[c].url).ok
              \/ /\ phase[c] = "done"
                 /\ \/ callResult[c].kind = "throw"
                    \/ callResult[c].body \notin WellFormed
  /\ \A u \in DOMAIN mem : mem[u].present => mem[u].data \in Feeds

\* C13: parseFeed never throws; it returns null when the fetch failed with
\* no cached fallback or the document could not be parsed, and the step
\* that returns null stores nothing in the memory tier.
C13_ParseFeedNull ==
  /\ []ParseFeedReturns
  /\ [][\A c \in Calls :
          (parse[c].out # "null" /\ parse'[c].out = "null") => mem' = mem]_vars

C13_Witness ==
  \E c, d \in Calls :
    /\ parse[c].out = "null" /\ callResult[c].kind = "throw"
    /\ parse[d].out = "null" /\ callResult[d].kind = "return"
    /\ callResult[d].body = "<rss"
    /\ \A u \in DOMAIN mem : ~mem[u].present

(***************************************************************************)
(* SpecFeeds: feeds are added and re-added under several names, and the    *)
(* live feed set is reset by POST /api/refresh.                            *)
(***************************************************************************)
FeedNames == { "News", "Daily", "" }

\* POST /api/refresh up to `await initFeeds()`, which adds the feeds again.
Refresh ==
  /\ feeds' = <<>>
  /\ mem' = [u \in DOMAIN mem |-> NoMem]
  /\ UNCHANGED <<feedsTable, cache, phase, site, callUrl, cachedSnap, retryVars,
                 callResult, queueVars, probe, parse, reply, articles,
                 articleState, view, sideVars>>

NextFeeds ==
  \/ \E u \in RawUrls, n \in FeedNames : AddFeed(u, n)
  \/ Refresh

SpecFeeds == Init /\ [][NextFeeds]_vars

\* C14: an addFeed call throws exactly when the validator rejects the URL,
\* and then the live feed set and the feeds table are unchanged; otherwise
\* it returns true and appends one feed when the normalized URL is not in
\* the live feed set, and returns false and leaves the set alone when it is.
C14_AddFeedResult ==
  [][/\ (reply' # reply /\ reply'.kind # "none") =>
          LET u == reply'.url
              href == URLParse(u).href
              verdicts == { validateHttpUrl(u, AllowPrivateFeeds, ans).ok :
                              ans \in DnsAnswers(URLParse(u).hostname) }
          IN
          /\ reply'.kind \in {"throw", "return"}
          /\ reply'.kind = "throw" =>
               FALSE \in verdicts /\ feeds' = feeds /\ feedsTable' = feedsTable
          /\ reply'.kind = "return" =>
               /\ TRUE \in verdicts
               /\ href \notin FeedUrls =>
                    /\ reply'.value
                    /\ Len(feeds') = Len(feeds) + 1
                    /\ SubSeq(feeds', 1, Len(feeds)) = feeds
                    /\ feeds'[Len(feeds')].url = href
               /\ href \in FeedUrls => ~reply'.value /\ feeds' = feeds
     /\ (feeds' # feeds /\ feeds' # <<>>) =>
          reply'.kind = "return" /\ reply'.value]_vars

C14_Witness ==
  /\ reply.kind = "return"
  /\ ~reply.value
  /\ reply.url = "HTTP://FEED.example/rss"
  /\ Len(feeds) = 2
  /\ feedsTable["https://intranet.corp/feed"] = "-"

\* C15: an addFeed call for a URL that has a feeds row, under another name,
\* sets the row's name to the new name and adds no second feed; a feeds row
\* is never deleted.
C15_ReAddRenames ==
  [][/\ (reply' # reply /\ reply'.kind = "return") =>
          LET href == URLParse(reply'.url).href IN
          (feedsTable[href] # "-" /\ feedsTable[href] # reply'.name) =>
            /\ feedsTable'[href] = reply'.name
            /\ Cardinality({ k \in 1..Len(feeds') : feeds'[k].url = href }) <= 1
     /\ \A u \in DOMAIN feedsTable :
          feedsTable[u] # "-" => feedsTable'[u] # "-"]_vars

(***************************************************************************)
(* RSSReader.getAllArticles: the final sort of the collected items.        *)
(***************************************************************************)
\* item.pubDate: absent, a date string (as its ms since 1970-01-01T00:00Z),
\* or a string Date cannot parse.
NoDate == [kind |-> "none", t |-> 0]
At(t) == [kind |-> "time", t |-> t]
BadDate == [kind |-> "bad", t |-> 0]

\* `new Date(pubDate || 0)` as a number: NaN for an Invalid Date.
DateOrEpoch(pubDate) ==
  CASE pubDate.kind = "none" -> [nan |-> FALSE, ms |-> 0]
    [] pubDate.kind = "time" -> [nan |-> FALSE, ms |-> pubDate.t]
    [] pubDate.kind = "bad" -> [nan |-> TRUE, ms |-> 0]

\* The comparator (a, b) => new Date(b.pubDate || 0) - new Date(a.pubDate || 0);
\* sort reads a NaN result as 0.
Compare(a, b) ==
  LET da == DateOrEpoch(a.pubDate)
      db == DateOrEpoch(b.pubDate)
  IN IF da.nan \/ db.nan THEN 0 ELSE db.ms - da.ms

\* Array.prototype.sort is stable.
RECURSIVE InsertSorted(_, _)
InsertSorted(x, s) ==
  IF s = <<>> THEN <<x>>
  ELSE IF Compare(Head(s), x) <= 0
    THEN <<Head(s)>> \o InsertSorted(x, Tail(s))
    ELSE <<x>> \o s

RECURSIVE StableSort(_)
StableSort(s) ==
  IF s = <<>> THEN <<>>
  ELSE InsertSorted(s[Len(s)], StableSort(SubSeq(s, 1, Len(s) - 1)))

\* The comparator orders the items consistently (a strict weak order).
Consistent(s) ==
  \A i, j, k \in 1..Len(s) :
    (Compare(s[i], s[j]) = 0 /\ Compare(s[j], s[k]) = 0) => Compare(s[i], s[k]) = 0

Orderings(s) ==
  { [i \in 1..Len(s) |-> s[f[i]]] :
      f \in { g \in [1..Len(s) -> 1..Len(s)] :
                \A i, j \in 1..Len(s) : i # j => g[i] # g[j] } }

\* The lists sort may produce: the order is implementation-defined when the
\* comparator is not consistent.
SortOutcomes(s) ==
  IF Consistent(s) THEN { StableSort(s) } ELSE Orderings(s)

\* getAllArticles' `.slice(0, limit * 2)`
Slice(s, n) == SubSeq(s, 1, Min({Len(s), n}))

\* getAllArticles(limit) once the items are collected.
GetAllArticles(limit) ==
  /\ view.kind = "collected"
  /\ \E out \in SortOutcomes(view.items) :
       view' = [view EXCEPT !.kind = "listed", !.out = Slice(out, limit * 2)]
  /\ UNCHANGED <<feeds, feedsTable, cache, phase, site, callUrl, cachedSnap,
                 retryVars, callResult, queueVars, probe, mem, parse, reply,
                 articles, articleState, sideVars>>

(***************************************************************************)
(* SpecSort: getAllArticles over every list of up to MaxItems items.       *)
(***************************************************************************)
PubDates == { NoDate, BadDate, At(-86400000), At(0), At(1000), At(86400000) }

\* The lists of up to MaxItems items with publish dates of P.
ListsOver(P) ==
  UNION { { [i \in 1..n |-> [title |-> i, pubDate |-> f[i]]] :
              f \in [1..n -> P] } : n \in 0..MaxItems }

ItemLists == ListsOver(PubDates)

InitSort ==
  /\ InitCore
  /\ InitTables
  /\ probe = NoProbe
  /\ \E items \in ItemLists :
       view = [kind |-> "collected", items |-> items, out |-> <<>>]

NextSort == GetAllArticles(50)

SpecSort == InitSort /\ [][NextSort]_vars

\* C16: the list getAllArticles returns is in descending order of publish
\* timestamp, and no item without a timestamp precedes a timestamped one.
C16_NewestFirst ==
  view.kind = "listed" =>
    \A i, j \in 1..Len(view.out) :
      i < j =>
        LET a == view.out[i].pubDate
            b == view.out[j].pubDate
        IN
        /\ (a.kind = "time" /\ b.kind = "time") => a.t >= b.t
        /\ ~(a.kind = "none" /\ b.kind = "time")

(***************************************************************************)
(* RSSReader.getArticlesByDate(date, daysWindow = 1).  Times are ms since  *)
(* 1970-01-01T00:00Z; the host's zone is a fixed offset from UTC.          *)
(***************************************************************************)
msPerDay == 86400000
msPerHour == 3600000
daysWindow == 1

\* The start of the local calendar day of t, as an instant.
LocalMidnight(t, offset) == ((t + offset) \div msPerDay) * msPerDay - offset

\* targetDate.setHours(0, 0, 0, 0)
TargetDate(date, offset) == LocalMidnight(date, offset)

\* endDate.setDate(endDate.getDate() + daysWindow); endDate.setHours(23, 59, 59, 999)
EndDate(targetDate, offset, days) ==
  LocalMidnight(targetDate + days * msPerDay, offset)
    + 23 * msPerHour + 59 * 60000 + 59 * 1000 + 999

\* The filter callback.
InWindow(article, targetDate, endDate) ==
  /\ article.pubDate.kind # "none"
  /\ article.pubDate.kind = "time"          \* an Invalid Date compares false
  /\ article.pubDate.t >= targetDate
  /\ article.pubDate.t <= endDate

GetArticlesByDate ==
  /\ view.kind = "asked"
  /\ \E allArticles \in SortOutcomes(view.items) :
       LET targetDate == TargetDate(view.date, view.offset)
           endDate == EndDate(targetDate, view.offset, daysWindow)
       IN view' = [view EXCEPT
                     !.kind = "filtered",
                     !.out = SelectSeq(Slice(allArticles, 100 * 2),
                               LAMBDA a : InWindow(a, targetDate, endDate))]
  /\ UNCHANGED <<feeds, feedsTable, cache, phase, site, callUrl, cachedSnap,
                 retryVars, callResult, queueVars, probe, mem, parse, reply,
                 articles, articleState, sideVars>>

(***************************************************************************)
(* SpecDate: getArticlesByDate for a day, on hosts in several zones, over  *)
(* every list of up to MaxItems items dated around that day.               *)
(***************************************************************************)
Zones == { -5 * msPerHour, 0, 8 * msPerHour }
AskedDays == { 2, 3 }
DayTimes ==
  { NoDate } \cup
  { At(d * msPerDay + h * msPerHour) : d \in 1..4, h \in {1, 23} }

InitDate ==
  /\ InitCore
  /\ InitTables
  /\ probe = NoProbe
  /\ \E items \in ListsOver(DayTimes), d \in AskedDays, z \in Zones :
       view = [kind |-> "asked", date |-> d * msPerDay, offset |-> z,
               items |-> items, out |-> <<>>]

NextDate == GetArticlesByDate

SpecDate == InitDate /\ [][NextDate]_vars

\* The UTC calendar day of an instant.
UtcDay(t) == t \div msPerDay

\* C17: with the default window, the articles returned for day D are
\* exactly the listed articles whose timestamp is on UTC day D, whatever
\* the host's zone.
C17_ExactlyTheUtcDay ==
  view.kind = "filtered" =>
    \A i \in 1..Len(view.items) :
      LET a == view.items[i] IN
      (\E k \in 1..Len(view.out) : view.out[k] = a)
        <=> (a.pubDate.kind = "time" /\ UtcDay(a.pubDate.t) = UtcDay(view.date))

(***************************************************************************)
(* processArticles(articles): every item is given its id, upserted into    *)
(* the articles table with markdown_path NULL, and decorated with its      *)
(* read/favorite state.                                                    *)
(***************************************************************************)
\* (reader.feeds.find(f => f.name === name) || {}).url
FindFeedUrl(name) ==
  IF \E k \in 1..Len(feeds) : feeds[k].name = name /\ name # ""
    THEN feeds[CHOOSE k \in 1..Len(feeds) :
                 /\ feeds[k].name = name
                 /\ \A j \in 1..(k - 1) : feeds[j].name # name].url
    ELSE ""

\* FOREIGN KEY(feed_url) REFERENCES feeds(url), checked when a row is inserted.
FeedRowMissing(table, row) ==
  /\ \A k \in 1..Len(table) : table[k].id # row.id
  /\ (row.feed_url \notin DOMAIN feedsTable \/ feedsTable[row.feed_url] = "-")

RECURSIVE processArticlesFrom(_, _, _)
processArticlesFrom(items, table, out) ==
  IF items = <<>> THEN [table |-> table, out |-> out, thrown |-> FALSE]
  ELSE
    LET a == Head(items)
        feedUrl == Or(a.feedUrl, FindFeedUrl(Or(a.feedName, a.feedTitle)))
        key == Or(a.guid, Or(a.link, a.title))
        id == stableId(feedUrl, key)
        row == [id |-> id, feed_url |-> feedUrl, guid |-> a.guid,
                link |-> a.link, title |-> a.title, markdown_path |-> ""]
    IN
    IF feedUrl = ""
      THEN \* skipped: the feed URL could not be determined
           processArticlesFrom(Tail(items), table,
             Append(out, [skipped |-> TRUE, id |-> <<"", "">>, feedUrl |-> "",
                          key |-> key, isRead |-> FALSE, isFavorite |-> FALSE]))
    ELSE IF FeedRowMissing(table, row)
      THEN [table |-> table, out |-> out, thrown |-> TRUE]
    ELSE processArticlesFrom(Tail(items), stmtUpsertArticle(table, row),
           Append(out, [skipped |-> FALSE, id |-> id, feedUrl |-> feedUrl,
                        key |-> key,
                        isRead |-> GetState(id).is_read # 0,
                        isFavorite |-> GetState(id).is_favorite # 0]))

ProcessArticles(items) ==
  LET r == processArticlesFrom(items, articles, <<>>) IN
  /\ articles' = r.table
  /\ reply' = [kind |-> IF r.thrown THEN "throw" ELSE "articles", items |-> r.out]
  /\ UNCHANGED <<feeds, feedsTable, cache, phase, site, callUrl, cachedSnap,
                 retryVars, callResult, queueVars, probe, mem, parse,
                 articleState, view, sideVars>>

(***************************************************************************)
(* SpecArticles: feeds are added, batches of feed items are processed and  *)
(* an article is materialized, in any order.                               *)
(***************************************************************************)
FeedItem(feedUrl, feedName, guid, link, title) ==
  [feedUrl |-> feedUrl, feedName |-> feedName, feedTitle |-> "", guid |-> guid,
   link |-> link, title |-> title]

ArticleItems ==
  { FeedItem("", "News", "g1", "http://feed.example/1", "T1"),
    FeedItem("", "News", "g1", "http://feed.example/1", "T1 (updated)"),
    FeedItem("", "Daily", "g1", "http://feed.example/1", "T1"),
    FeedItem("", "News", "", "http://feed.example/2", "T2"),
    FeedItem("https://intranet.corp", "", "", "https://intranet.corp/feed", "T3"),
    FeedItem("", "Gone", "g4", "", "T4") }

ItemBatches ==
  { <<a>> : a \in ArticleItems } \cup { <<a, b>> : a, b \in ArticleItems }

ArticleAnswers == { Resp(200, "b1", ""), Resp(404, "", "") }

NextArticles ==
  \/ \E n \in {"News", "Daily"} :
       \/ AddFeed("http://feed.example/rss", n)
       \/ AddFeed("http://rebind.example/", n)
  \/ \E items \in ItemBatches : ProcessArticles(items)
  \/ \E c \in CallsOf("article") :
       MaterializeBegin(c, "https://intranet.corp/feed")
  \/ \E c \in Calls, r \in ArticleAnswers : AttemptReturns(c, r)
  \/ \E c \in Calls : MaterializeFetched(c, TRUE)

SpecArticles == Init /\ [][NextArticles]_vars

\* guid, else link, else title, of a row.
RowKey(row) == Or(row.guid, Or(row.link, row.title))

\* C18: the articles table has one row per id and per (feed URL, key); the
\* items of a processed batch have the same id exactly when they have the
\* same feed URL and the same key (guid, else link, else title), and each
\* has exactly one row, however often it was processed.
C18_IdempotentUpsert ==
  /\ \A j, k \in 1..Len(articles) :
       (articles[j].id = articles[k].id
          \/ (articles[j].feed_url = articles[k].feed_url
                /\ RowKey(articles[j]) = RowKey(articles[k]))) => j = k
  /\ reply.kind = "articles" =>
       \A i \in 1..Len(reply.items) :
         LET d == reply.items[i] IN
         ~d.skipped =>
           /\ Cardinality({ k \in 1..Len(articles) : articles[k].id = d.id }) = 1
           /\ \A k \in 1..Len(articles) :
                articles[k].id = d.id =>
                  articles[k].feed_url = d.feedUrl /\ RowKey(articles[k]) = d.key
           /\ \A j \in 1..Len(reply.items) :
                ~reply.items[j].skipped =>
                  ((reply.items[j].feedUrl = d.feedUrl /\ reply.items[j].key = d.key)
                     <=> reply.items[j].id = d.id)

C18_Witness ==
  /\ reply.kind = "articles"
  /\ Len(reply.items) = 2
  /\ ~reply.items[1].skipped /\ ~reply.items[2].skipped
  /\ reply.items[1].id = reply.items[2].id
  /\ \E j, k \in 1..Len(articles) :
       /\ articles[j].guid = "g1" /\ articles[k].guid = "g1"
       /\ articles[j].feed_url # articles[k].feed_url
       /\ articles[j].title = "T1 (updated)"

\* A materialize request finishes in this step.
MaterializeStep ==
  \E c \in Calls :
    site[c] = "article" /\ phase[c] = "settled" /\ phase'[c] = "done"

\* C19: a row's markdown_path, once set, is never NULL again; it is set or
\* replaced only by a materialization, and an upsert with markdown_path
\* NULL leaves it as stored.
C19_MarkdownPathKept ==
  [][/\ \A k \in 1..Len(articles) :
          articles[k].markdown_path # "" =>
            /\ k <= Len(articles')
            /\ articles'[k].id = articles[k].id
            /\ articles'[k].markdown_path # ""
            /\ MaterializeStep
                 \/ articles'[k].markdown_path = articles[k].markdown_path
     /\ \A k \in 1..Len(articles') :
          (/\ articles'[k].markdown_path # ""
           /\ (k > Len(articles)
                \/ articles[k].markdown_path # articles'[k].markdown_path))
            => MaterializeStep]_vars

C19_Witness ==
  \E k \in 1..Len(articles) :
    /\ articles[k].markdown_path = "articles/intranet.corp-feed.md"
    /\ articles[k].title = "T3"
    /\ reply.kind = "articles"

(***************************************************************************)
(* POST /api/article/state.  A request field is "true" or "false" (a JSON  *)
(* boolean), "other" (any other JSON value) or "omitted".                  *)
(***************************************************************************)
FieldValues == { "true", "false", "other", "omitted" }

\* typeof x === 'boolean' ? (x ? 1 : 0) : existing
NextFlagOrZero(x, existing) ==
  IF x = "true" THEN 1 ELSE 0

NextFlag(x, existing) ==
  IF x \in {"true", "false"} THEN (IF x = "true" THEN 1 ELSE 0) ELSE existing

\* FOREIGN KEY(article_id) REFERENCES articles(id)
ArticleRowMissing(articleId) ==
  \A k \in 1..Len(articles) : articles[k].id # articleId

\* stmtSetState.run(articleId, nextRead, nextFav)
stmtSetState(table, articleId, nextRead, nextFav) ==
  IF \E k \in 1..Len(table) : table[k].article_id = articleId
    THEN [k \in 1..Len(table) |->
            IF table[k].article_id = articleId
              THEN [table[k] EXCEPT !.is_read = nextRead, !.is_favorite = nextFav]
              ELSE table[k]]
    ELSE Append(table, [article_id |-> articleId, is_read |-> nextRead,
                        is_favorite |-> nextFav])

\* stmtGetArticle.get(articleId).markdown_path, "" when there is none.
MarkdownPathOf(articleId) ==
  IF ArticleRowMissing(articleId) THEN ""
  ELSE articles[CHOOSE k \in 1..Len(articles) :
                  articles[k].id = articleId].markdown_path

NoArticleId == <<"", "">>

StateReply(status, articleId, req, isRead, isFavorite, download) ==
  [kind |-> "state", status |-> status, articleId |-> articleId, req |-> req,
   isRead |-> isRead, isFavorite |-> isFavorite, download |-> download]

\* nextFav && !existing.is_favorite, and article && article.markdown_path
TriggersWhileFavorite(nextFav, wasFav, markdownPath) ==
  nextFav # 0 /\ markdownPath # ""

Triggers(nextFav, wasFav, markdownPath) ==
  nextFav # 0 /\ wasFav = 0 /\ markdownPath # ""

SetArticleState(articleId, isRead, isFavorite) ==
  LET req == [isRead |-> isRead, isFavorite |-> isFavorite]
      existing == GetState(articleId)
      nextRead == NextFlag(isRead, existing.is_read)
      nextFav == NextFlag(isFavorite, existing.is_favorite)
      download == Triggers(nextFav, existing.is_favorite, MarkdownPathOf(articleId))
  IN
  /\ IF articleId = NoArticleId
       THEN \* 400 Missing articleId
            /\ reply' = StateReply(400, articleId, req, FALSE, FALSE, FALSE)
            /\ NoPassStep(docs, phase)
            /\ UNCHANGED <<articleState, activity>>
       ELSE IF ArticleRowMissing(articleId)
              /\ \A k \in 1..Len(articleState) :
                    articleState[k].article_id # articleId
       THEN \* the insert violates the foreign key: the catch answers 500
            /\ reply' = StateReply(500, articleId, req, FALSE, FALSE, FALSE)
            /\ NoPassStep(docs, phase)
            /\ UNCHANGED <<articleState, activity>>
       ELSE /\ articleState' = stmtSetState(articleState, articleId, nextRead, nextFav)
            \* downloadResources is started, detached, for a newly favorited
            \* article that has a Markdown file
            /\ IF download
                 THEN downloadResources(MarkdownPathOf(articleId), articleId,
                                        docs, phase)
                 ELSE NoPassStep(docs, phase)
            /\ activity' = stmtLogActivity(activity, "state", articleId)
            /\ reply' = StateReply(200, articleId, req, nextRead # 0, nextFav # 0,
                                   download)
  /\ UNCHANGED <<feeds, feedsTable, cache, cachedSnap, retryVars, callResult,
                 probe, mem, parse, articles, view, notes, assets, pass, adding, reqBody>>

(***************************************************************************)
(* POST /api/article/note.                                                 *)
(***************************************************************************)
\* NOTES_DIR/y/m/<slug>.md, the slug made of the title or of the article id.
NotePath(articleId, title) ==
  "notes/" \o safeFileName(Or(title, "note-" \o articleId[2])) \o ".md"

\* stmtInsertNote.run(articleId, filePath)
stmtInsertNote(table, articleId, filePath) ==
  Append(table, [article_id |-> articleId, note_path |-> filePath])

NoteReply(status, articleId, notePath) ==
  [kind |-> "note", status |-> status, articleId |-> articleId,
   notePath |-> notePath]

CreateNote(articleId, title) ==
  LET filePath == NotePath(articleId, title) IN
  /\ IF articleId = NoArticleId
       THEN \* 400 Missing articleId
            /\ reply' = NoteReply(400, articleId, "")
            /\ UNCHANGED <<assets, notes, activity>>
       ELSE IF ArticleRowMissing(articleId)
       THEN \* the file is written, then the insert violates the foreign
            \* key: the catch answers 500
            /\ assets' = assets \cup {filePath}
            /\ reply' = NoteReply(500, articleId, "")
            /\ UNCHANGED <<notes, activity>>
       ELSE /\ assets' = assets \cup {filePath}
            /\ notes' = stmtInsertNote(notes, articleId, filePath)
            /\ activity' = stmtLogActivity(activity, "note", articleId)
            /\ reply' = NoteReply(200, articleId, filePath)
  /\ UNCHANGED <<feeds, feedsTable, cache, phase, site, callUrl, cachedSnap,
                 retryVars, callResult, queueVars, probe, mem, parse, articles,
                 articleState, view, docs, jobs, pass, adding, reqBody>>

(***************************************************************************)
(* SpecState: a feed is added and listed, an article is materialized, and  *)
(* state requests are made for these two articles and for an unknown one.  *)
(***************************************************************************)
ListedItem == FeedItem("", "News", "g1", "http://feed.example/1", "T1")

StateIds ==
  { stableId("http://feed.example/rss", "g1"),
    MaterializedRow("https://intranet.corp/feed").id,
    stableId("http://feed.example/rss", "g9"),
    NoArticleId }

NextState ==
  \/ feeds = <<>> /\ AddFeed("http://feed.example/rss", "News")
  \/ ProcessArticles(<<ListedItem>>)
  \/ \E c \in CallsOf("article") :
       MaterializeBegin(c, "https://intranet.corp/feed")
  \/ \E c \in Calls, r \in ArticleAnswers : AttemptReturns(c, r)
  \/ \E c \in Calls : MaterializeFetched(c, TRUE)
  \/ \E id \in StateIds, r \in FieldValues, f \in FieldValues :
       Len(activity) < MaxEvents /\ SetArticleState(id, r, f)

SpecState == Init /\ [][NextState]_vars

\* C20: a state request for a stored article answers 200; a field given as
\* a boolean is stored as given, an omitted field keeps the stored value
\* (false when the article has no state row), there is one state row for
\* the article, and the answer reports the stored pair.
C20_OmittedFieldsKept ==
  [][(reply' # reply /\ reply'.kind = "state") =>
       LET id == reply'.articleId
           prior == { k \in 1..Len(articleState) : articleState[k].article_id = id }
           was(field) == \E k \in prior : articleState[k][field] # 0
           want(given, field) ==
             IF given \in {"true", "false"} THEN given = "true" ELSE was(field)
           rows == { k \in 1..Len(articleState') : articleState'[k].article_id = id }
       IN
       (id # NoArticleId /\ ~ArticleRowMissing(id)) =>
         /\ reply'.status = 200
         /\ Cardinality(rows) = 1
         /\ reply'.isRead = want(reply'.req.isRead, "is_read")
         /\ reply'.isFavorite = want(reply'.req.isFavorite, "is_favorite")
         /\ \A k \in rows :
              /\ (articleState'[k].is_read # 0) = reply'.isRead
              /\ (articleState'[k].is_favorite # 0) = reply'.isFavorite
         /\ \A k \in 1..Len(articleState) :
              articleState[k].article_id # id =>
                k <= Len(articleState') /\ articleState'[k] = articleState[k]]_vars

C20_Witness ==
  /\ reply.kind = "state"
  /\ reply.status = 200
  /\ reply.req.isRead = "omitted"
  /\ reply.req.isFavorite = "false"
  /\ reply.isRead
  /\ ~reply.isFavorite
  /\ \E k \in 1..Len(articleState) :
       /\ articleState[k].article_id = reply.articleId
       /\ articleState[k].is_read = 1
       /\ articleState[k].is_favorite = 0


\* A state request is answered in this step.
StateRequestStep ==
  /\ reply'.kind = "state"
  /\ \/ reply' # reply
     \/ /\ Len(activity') = Len(activity) + 1
        /\ activity'[Len(activity')].type = "state"

IsFavorite(table, id) ==
  \E k \in 1..Len(table) : table[k].article_id = id /\ table[k].is_favorite # 0

\* C21: a state request starts a downloadResources pass exactly when it
\* takes the favorite flag of the article from false to true and the
\* article has a markdown path; the pass is for that article and that file.
\* A request that leaves the flag true, sets it false, fails, or concerns
\* an article without a markdown path starts none.
C21_FavoriteStartsLocalization ==
  [][StateRequestStep =>
       LET id == reply'.articleId
           turnedOn == ~IsFavorite(articleState, id) /\ IsFavorite(articleState', id)
           started == Len(jobs') = Len(jobs) + 1
       IN
       /\ started <=> (turnedOn /\ MarkdownPathOf(id) # "")
       /\ ~started => jobs' = jobs
       /\ started => /\ jobs'[Len(jobs')].articleId = id
                      /\ jobs'[Len(jobs')].path = MarkdownPathOf(id)
                      /\ SubSeq(jobs', 1, Len(jobs)) = jobs
       /\ reply'.download = started]_vars

C21_Witness ==
  /\ reply.kind = "state"
  /\ reply.status = 200
  /\ reply.download
  /\ jobs # <<>>
  /\ jobs[Len(jobs)].articleId = reply.articleId
  /\ \E k \in 1..Len(activity) : activity[k].type = "materialize"

(***************************************************************************)
(* SpecCollect: a page is materialized, its article is made a favorite or  *)
(* not, and the downloadResources passes this starts run through the       *)
(* shared queue.                                                           *)
(***************************************************************************)
PageUrl == "https://intranet.corp/feed"
PageId == MaterializedRow(PageUrl).id

PageAnswers ==
  { Resp(200, "page1", ""), Resp(200, "page2", ""), Resp(200, "page3", ""),
    Resp(404, "", "") }

ImageAnswers == { Resp(200, "png", ""), Resp(404, "", "") }

NextCollect ==
  \/ \E c \in Calls :
       \* one materialize request at a time, on the first free call
       /\ \A d \in Calls : site[d] = "article" => phase[d] = "done"
       /\ \A d \in Calls : d < c => ~CanBegin(d)
       /\ MaterializeBegin(c, PageUrl)
  \/ \E c \in Calls :
       \E r \in (IF site[c] = "article" THEN PageAnswers ELSE ImageAnswers) :
         AttemptReturns(c, r)
  \/ Advance
  \/ \E c \in Calls : MaterializeFetched(c, TRUE)
  \/ \E f \in {"true", "false"} :
       Len(activity) < MaxEvents /\ SetArticleState(PageId, "omitted", f)
  \/ \E n \in 1..Len(jobs), readOk \in BOOLEAN, fsOk \in BOOLEAN :
       DownloadFetched(n, readOk, fsOk)

SpecCollect == Init /\ [][NextCollect]_vars

\* A downloadResources pass is started in this step.
PassStarted == Len(jobs') = Len(jobs) + 1

NeverUnhandled ==
  \A n \in 1..Len(jobs) : jobs[n].state \in {"running", "done", "logged"}

DetachedSteps ==
  [][/\ PassStarted =>
          \/ /\ StateRequestStep
             /\ reply'.status = 200
             /\ reply'.download
             /\ callResult' = callResult
          \/ /\ reply' = reply
             /\ \E c \in Calls :
                  /\ site[c] = "article" /\ phase[c] = "settled"
                  /\ phase'[c] = "done"
                  /\ callResult'[c].status = 200
                  /\ \A d \in Calls \ {c} : callResult'[d] = callResult[d]
     /\ (jobs' # jobs /\ ~PassStarted) =>
          /\ reply' = reply
          /\ \A c \in Calls : site[c] = "article" => callResult'[c] = callResult[c]
          /\ activity' = activity
          /\ articleState' = articleState]_vars

\* C22: the request that starts a downloadResources pass (a state request
\* or a materialization) answers with success in the step that starts it,
\* whatever state the pass is left in; no later step of a pass, its failure
\* included, changes an answer, the article state or the activity log; and
\* a pass that fails, before its first await or after, ends caught and
\* logged, never unhandled.
C22_DetachedLocalization == []NeverUnhandled /\ DetachedSteps

C22_Witness ==
  /\ reply.kind = "state" /\ reply.status = 200 /\ reply.download
  /\ \E n, m \in 1..Len(jobs) :
       /\ jobs[n].state = "logged" /\ jobs[n].fetched = <<>>
       /\ jobs[m].state = "running" /\ jobs[m].call # 0

Urls(refs) == { refs[k].url : k \in 1..Len(refs) }

FullyRewritten(refs) ==
  /\ refs # <<>>
  /\ \A k \in 1..Len(refs) : ("articles/" \o refs[k].url) \in assets

\* C24: a pass over a document whose references were all rewritten by an
\* earlier pass makes no fetch, writes no file and leaves the document as
\* it is.
C24_SecondPassNoOp ==
  \A n \in 1..Len(jobs) :
    LET j == jobs[n] IN
    FullyRewritten(j.content) =>
      /\ j.fetched = <<>>
      /\ j.wrote = {}
      /\ j.updated = j.content

\* The fetches pass j made for the match k.
FetchesOf(j, k) ==
  { i \in 1..Len(j.fetched) : j.fetched[i] = downloadUrl(j, k) }

ActivityIds == { PageId, stableId("http://feed.example/rss", "g9"), NoArticleId }

NextActivity ==
  \/ \E c \in CallsOf("article") : MaterializeBegin(c, PageUrl)
  \/ \E c \in Calls, r \in ArticleAnswers : AttemptReturns(c, r)
  \/ \E c \in Calls, readOk \in BOOLEAN : MaterializeFetched(c, readOk)
  \/ \E id \in ActivityIds, f \in {"true", "false", "omitted"} :
       Len(activity) < MaxEvents /\ SetArticleState(id, "true", f)
  \/ \E id \in ActivityIds, title \in {"", "n1"} :
       Len(activity) < MaxEvents /\ CreateNote(id, title)

SpecActivity == Init /\ [][NextActivity]_vars

\* A note request is answered in this step.
NoteRequestStep ==
  /\ reply'.kind = "note"
  /\ \/ reply' # reply
     \/ /\ Len(activity') = Len(activity) + 1
        /\ activity'[Len(activity')].type = "note"

\* The step appends one event of this type for this article and keeps the
\* events there were.
Appends(type, id) ==
  activity' = Append(activity, [type |-> type, article_id |-> id])

\* C26: every step keeps the events of the activity log as they are, in
\* order; a state, note or materialize request that succeeds appends
\* exactly one event of its type for its article, one that fails appends
\* none, and no other step appends any.
C26_ActivityAppendOnly ==
  [][/\ Len(activity') >= Len(activity)
     /\ SubSeq(activity', 1, Len(activity)) = activity
     /\ StateRequestStep =>
          IF reply'.status = 200 THEN Appends("state", reply'.articleId)
          ELSE activity' = activity
     /\ NoteRequestStep =>
          IF reply'.status = 200 THEN Appends("note", reply'.articleId)
          ELSE activity' = activity
     /\ \A c \in Calls :
          (site[c] = "article" /\ phase[c] = "settled" /\ phase'[c] = "done") =>
            IF callResult'[c].status = 200
              THEN Appends("materialize", MaterializedRow(callUrl[c]).id)
              ELSE activity' = activity
     /\ (~StateRequestStep /\ ~NoteRequestStep /\ ~MaterializeStep) =>
          activity' = activity]_vars

C26_Witness ==
  /\ Len(activity) = 3
  /\ { activity[k].type : k \in 1..3 } = {"state", "note", "materialize"}
  /\ reply.kind = "note" /\ reply.status = 500
  /\ notes # <<>>

(***************************************************************************)
(* SpecFront: the front matter the materialize handler writes for a title, *)
(* a URL and a feed URL, and the source URL downloadResources reads back.  *)
(***************************************************************************)
TitleTokens == { "a", NL, DQ, BS, "---", "url: " }

RECURSIVE TextsUpTo(_)
TextsUpTo(n) ==
  IF n = 0 THEN { <<>> }
  ELSE TextsUpTo(n - 1)
         \cup { Append(t, x) : t \in TextsUpTo(n - 1), x \in TitleTokens }

Titles == TextsUpTo(MaxTitle)

\* The document head is written for (title, href, feedUrl) and read back.
FrontMatterRoundTrip(title, href, feedUrl) ==
  LET text == FrontMatterText(title, href, feedUrl) IN
  /\ reply' = [kind |-> "frontMatter", title |-> title, url |-> href,
                feedUrl |-> feedUrl, text |-> text,
                sourceUrl |-> SourceUrlOf(text)]
  /\ UNCHANGED <<feeds, feedsTable, cache, phase, site, callUrl, cachedSnap,
                 retryVars, callResult, queueVars, probe, mem, parse, articles,
                 articleState, view, sideVars>>

NextFront ==
  \E title \in Titles, href \in {PageUrl, "http://rebind.example/"},
     feedUrl \in {"", "http://feed.example/rss"} :
    FrontMatterRoundTrip(title, href, feedUrl)

SpecFront == Init /\ [][NextFront]_vars

FrontKeys ==
  { "title: ", "url: ", "feed_url: ", "published_at: ", "fetched_at: ", "source: " }

\* The lines of text between its first line and its last "---" line.
BlockLines(text) == Split(SubSeq(text, 3, Len(text) - 4), <<>>)

\* C27: the document head starts with "---", ends with "---" and an empty
\* line, and holds between them only lines `key: json`, one for each of
\* url, fetched_at and source, one for title and for feed_url exactly when
\* the request gave a non-empty one, none for published_at; the title line
\* parses to the title; and the source URL downloadResources reads from
\* the document is the URL the handler recorded.
C27_FrontMatterRoundTrip ==
  reply.kind = "frontMatter" =>
    LET text == reply.text
        lines == BlockLines(text)
        keyed(key) == { k \in 1..Len(lines) : lines[k][1] = key }
    IN
    /\ SubSeq(text, 1, 2) = <<"---", NL>>
    /\ SubSeq(text, Len(text) - 3, Len(text)) = <<NL, "---", NL, NL>>
    /\ \A k \in 1..Len(lines) :
         /\ Len(lines[k]) >= 3
         /\ lines[k][1] \in FrontKeys
         /\ JSONparse(Tail(lines[k])) \notin {NoJson, <<>>}
    /\ \A key \in {"url: ", "fetched_at: ", "source: "} :
         Cardinality(keyed(key)) = 1
    /\ Cardinality(keyed("title: ")) = (IF reply.title = <<>> THEN 0 ELSE 1)
    /\ Cardinality(keyed("feed_url: ")) = (IF reply.feedUrl = "" THEN 0 ELSE 1)
    /\ keyed("published_at: ") = {}
    /\ \A k \in keyed("title: ") : JSONparse(Tail(lines[k])) = reply.title
    /\ \A k \in keyed("url: ") : JSONparse(Tail(lines[k])) = <<reply.url>>
    /\ reply.sourceUrl = <<reply.url>>

C27_Witness ==
  /\ reply.kind = "frontMatter"
  /\ reply.title = <<NL, "---">>
  /\ reply.feedUrl # ""
  /\ reply.sourceUrl = <<"https://intranet.corp/feed">>

(***************************************************************************)
(* RSSReader.getAllArticles: the batches.  parseFeed is taken by its       *)
(* contract: a call is started and later resolves, with null or with a     *)
(* parsed feed.                                                            *)
(***************************************************************************)
batchSize == 10

\* if (allArticles.length >= limit * 3) break;
EnoughNever(n, limit) == FALSE

Enough(n, limit) == n >= limit * 3

\* this.feeds.slice(i, i + batchSize), as indices into this.feeds
Batch(i) == (i + 1)..Min({i + batchSize, Len(feeds)})

\* The items of the parsed feed k, as getAllArticles pushes them.
ParsedItems(k) ==
  << [title |-> k, pubDate |-> At(k * 1000), feedTitle |-> "T",
      feedName |-> feeds[k].name] >>

RECURSIVE Collected(_, _)
\* results.forEach(...): the items of the feeds of S that were parsed, in
\* the order of the feeds.
Collected(results, S) ==
  IF S = {} THEN <<>>
  ELSE LET k == Min(S) IN
       (IF results[k] = "parsed" THEN ParsedItems(k) ELSE <<>>)
         \o Collected(results, S \ {k})

\* return allArticles.sort(...).slice(0, limit * 2)
Returns(p) ==
  \E sorted \in SortOutcomes(p.allArticles) :
    pass' = [p EXCEPT !.kind = "returned", !.out = Slice(sorted, p.limit * 2)]

\* The loop of getAllArticles from `i < this.feeds.length` on: the next
\* batch of parseFeed calls is started, or the list is returned.
LoopFrom(p) ==
  IF p.i < Len(feeds)
    THEN pass' = [p EXCEPT !.results =
                    [k \in 1..Len(feeds) |->
                       IF k \in Batch(p.i) THEN "pending" ELSE p.results[k]]]
    ELSE Returns(p)

\* getAllArticles(limit) up to the first `await Promise.all(...)`.
GetAllArticlesBegin(limit) ==
  /\ pass.kind = "none"
  /\ LoopFrom([kind |-> "running", limit |-> limit, i |-> 0,
               results |-> [k \in 1..Len(feeds) |-> "unstarted"],
               allArticles |-> <<>>, out |-> <<>>])
  /\ UNCHANGED <<feeds, feedsTable, cache, phase, site, callUrl, cachedSnap,
                 retryVars, callResult, queueVars, probe, mem, parse, reply,
                 articles, articleState, view, activity, notes, docs, assets,
                 jobs, adding, reqBody>>

\* The parseFeed call for feed k resolves, with null or with a parsed feed;
\* when it is the last of its batch, Promise.all resolves and the loop
\* goes on.
BatchFeedSettles(k, parsed) ==
  LET results == [pass.results EXCEPT ![k] = IF parsed THEN "parsed" ELSE "null"]
      p == [pass EXCEPT !.results = results]
      all == p.allArticles \o Collected(results, Batch(p.i))
  IN
  /\ pass.kind = "running"
  /\ k \in 1..Len(feeds)
  /\ pass.results[k] = "pending"
  /\ IF \E j \in Batch(p.i) : results[j] = "pending"
       THEN pass' = p
       ELSE IF Enough(Len(all), p.limit)
       THEN Returns([p EXCEPT !.allArticles = all])
       ELSE LoopFrom([p EXCEPT !.allArticles = all, !.i = @ + batchSize])
  /\ UNCHANGED <<feeds, feedsTable, cache, phase, site, callUrl, cachedSnap,
                 retryVars, callResult, queueVars, probe, mem, parse, reply,
                 articles, articleState, view, activity, notes, docs, assets,
                 jobs, adding, reqBody>>

(***************************************************************************)
(* SpecBatch: getAllArticles over NumFeeds feeds.                          *)
(***************************************************************************)
BatchFeedUrl(k) == "http://feed.example/" \o ToString(k)

InitBatch ==
  /\ InitExt
  /\ feeds = [k \in 1..NumFeeds |-> [url |-> BatchFeedUrl(k), name |-> "News"]]
  /\ feedsTable = [u \in FeedKeys \cup { BatchFeedUrl(k) : k \in 1..NumFeeds } |->
                     IF u \in FeedKeys THEN "-" ELSE "News"]
  /\ cache = [u \in Hrefs |-> NoRow]
  /\ phase = [c \in Calls |-> "idle"]
  /\ site = [c \in Calls |-> "none"]
  /\ callUrl = [c \in Calls |-> ""]
  /\ cachedSnap = [c \in Calls |-> NoRow]
  /\ retryIdx = [c \in Calls |-> 0]
  /\ outcomes = [c \in Calls |-> <<>>]
  /\ delays = [c \in Calls |-> <<>>]
  /\ sleepLeft = [c \in Calls |-> 0]
  /\ taskResult = [c \in Calls |-> NoTaskResult]
  /\ callResult = [c \in Calls |-> NoCallResult]
  /\ waiting = {}
  /\ running = {}
  /\ starts = <<>>
  /\ probe = NoProbe

NextBatch ==
  \/ \E limit \in {1, 3} : GetAllArticlesBegin(limit)
  \/ \E k \in 1..NumFeeds, parsed \in BOOLEAN : BatchFeedSettles(k, parsed)

SpecBatch == InitBatch /\ [][NextBatch]_vars

Started(p) == { k \in 1..Len(feeds) : p.results[k] # "unstarted" }

\* C28: the parseFeed calls started are those of the first batches of 10
\* feeds; while a call of one batch is pending no call of a later batch has
\* started; a batch is started only while fewer than 3 * limit items have
\* been collected; the items collected are those of the feeds that were
\* parsed, a feed that gave null adding none and stopping nothing; and the
\* list returned has at most 2 * limit items.
C28_Batches ==
  [][pass'.kind # "none" =>
       LET p == pass'
           n == Len(feeds)
       IN
       /\ p.i % batchSize = 0
       /\ Started(p) = 1..Min({n, p.i + batchSize})
       /\ \A k \in Started(p) : k <= p.i => p.results[k] # "pending"
       /\ (Started(p) # (IF pass.kind = "none" THEN {} ELSE Started(pass))) =>
            /\ Len(p.allArticles) < 3 * p.limit
            /\ Cardinality(Started(p) \ (IF pass.kind = "none" THEN {}
                                          ELSE Started(pass))) <= batchSize
       /\ LET done == IF p.kind = "returned" THEN Started(p) ELSE 1..p.i IN
          /\ Len(p.allArticles) =
               Cardinality({ k \in done : p.results[k] = "parsed" })
          /\ \A k \in done :
               p.results[k] = "parsed" <=>
                 \E x \in 1..Len(p.allArticles) : p.allArticles[x].title = k
       /\ p.kind = "returned" =>
            /\ Len(p.out) <= 2 * p.limit
            /\ \A k \in Started(p) : p.results[k] # "pending"
            /\ (Len(p.allArticles) < 3 * p.limit => Started(p) = 1..n)]_vars

C28_Witness ==
  /\ pass.kind = "returned"
  /\ pass.limit = 3
  /\ pass.results[1] = "null"
  /\ pass.results[NumFeeds] = "parsed"
  /\ Len(pass.allArticles) >= 9
  /\ Len(pass.out) = 6

(***************************************************************************)
(* addFeed, step by step: the call suspends at `await validateHttpUrl`,    *)
(* and the rest of it runs when the validation has resolved.  Calls made   *)
(* by loadFromOPML are awaited one after another; direct calls are not.    *)
(***************************************************************************)
\* addFeed(url, name) up to `await validateHttpUrl(url)`.
AddFeedBegin(url, name, src) ==
  /\ src = "opml" =>
       \A n \in 1..Len(adding) :
         adding[n].src = "opml" => adding[n].state = "returned"
  /\ adding' = Append(adding, [url |-> url, name |-> name, src |-> src,
                                state |-> "validating", result |-> "none"])
  /\ UNCHANGED <<feeds, feedsTable, cache, phase, site, callUrl, cachedSnap,
                 retryVars, callResult, queueVars, probe, mem, parse, reply,
                 articles, articleState, view, activity, notes, docs, assets,
                 jobs, pass, reqBody>>

\* addFeed after `await validateHttpUrl(url)`; ans is the resolver's answer.
AddFeedResume(n, ans) ==
  LET call == adding[n]
      validated == validateHttpUrl(call.url, AllowPrivateFeeds, ans)
      normalizedUrl == URLParse(call.url).href
      settle(result) ==
        adding' = [adding EXCEPT ![n].state = "returned", ![n].result = result]
  IN
  /\ call.state = "validating"
  /\ IF ~validated.ok
       THEN /\ settle("throw")
            /\ UNCHANGED <<feeds, feedsTable>>
       ELSE IF exists(normalizedUrl)
       THEN /\ settle("false")
            /\ UNCHANGED <<feeds, feedsTable>>
       ELSE /\ feeds' = Append(feeds,
                   [url |-> normalizedUrl,
                    name |-> IF call.name = "" THEN normalizedUrl ELSE call.name])
            /\ feedsTable' = [feedsTable EXCEPT ![normalizedUrl] = call.name]
            /\ settle("true")
  /\ UNCHANGED <<cache, phase, site, callUrl, cachedSnap, retryVars,
                 callResult, queueVars, probe, mem, parse, reply, articles,
                 articleState, view, activity, notes, docs, assets, jobs, pass,
                 reqBody>>

(***************************************************************************)
(* SpecAdd: up to MaxAdds addFeed calls, direct or from an OPML file, in   *)
(* any interleaving.                                                       *)
(***************************************************************************)
AddUrls ==
  { "http://feed.example/rss", "HTTP://FEED.example/rss", "http://rebind.example/" }

NextAdd ==
  \/ \E url \in AddUrls, src \in {"direct", "opml"} :
       Len(adding) < MaxAdds /\ AddFeedBegin(url, "News", src)
  \/ \E n \in 1..Len(adding) :
       \E ans \in DnsAnswers(URLParse(adding[n].url).hostname) :
         AddFeedResume(n, ans)

SpecAdd == Init /\ [][NextAdd]_vars

\* The addFeed calls for the normalized URL u that returned true.
ReturnedTrue(u) ==
  { n \in 1..Len(adding) :
      URLParse(adding[n].url).href = u /\ adding[n].result = "true" }

\* C29: at every point of every interleaving the live feed set has no two
\* entries with the same normalized URL; a URL is in the set exactly when
\* one call for it has returned true, and no second call for it has; and a
\* call that passed validation and returned false found the URL in the set.
C29_OneAddWins ==
  /\ \A j, k \in 1..Len(feeds) : feeds[j].url = feeds[k].url => j = k
  /\ \A u \in Hrefs :
       Cardinality(ReturnedTrue(u)) = (IF u \in FeedUrls THEN 1 ELSE 0)
  /\ \A n \in 1..Len(adding) :
       adding[n].result = "false" => URLParse(adding[n].url).href \in FeedUrls

C29_Witness ==
  /\ Len(adding) = 3
  /\ \A n \in 1..3 :
       /\ URLParse(adding[n].url).href = "http://feed.example/rss"
       /\ adding[n].state = "returned"
  /\ adding[1].result = "false"
  /\ adding[2].src = "opml" /\ adding[2].result = "false"
  /\ adding[3].src = "direct" /\ adding[3].result = "true"
  /\ Len(feeds) = 1

\* The parseFeed calls for u that are waiting for a fetch task of their own.
Fetching(u) ==
  { c \in Calls :
      /\ parse[c].out = "pending" /\ parse[c].url = u
      /\ site[c] = "feed" /\ phase[c] # "idle" }

\* C30: of the parseFeed calls for one URL that are in flight together,
\* started while the memory tier had no fresh entry for it, at most one has
\* added a task to the fetch queue.
C30_BurstAbsorbed ==
  \A u \in ParseUrls : Cardinality(Fetching(u)) <= 1

(***************************************************************************)
(* SpecSave: a feed is added, its items are processed and articles are     *)
(* materialized from the listing (the request carries the item's feedUrl   *)
(* and link, with or without its title), one request at a time.            *)
(***************************************************************************)
SaveFeed == "http://feed.example/rss"

SaveItems ==
  { FeedItem(SaveFeed, "", "", "https://intranet.corp/feed", "T"),
    FeedItem(SaveFeed, "", "g2", "http://rebind.example/", "T") }

SaveAnswers == { Resp(200, "page1", "") }

NextSave ==
  \/ AddFeed(SaveFeed, "News")
  \/ \E a \in SaveItems : ProcessArticles(<<a>>)
  \/ \E c \in Calls, a \in SaveItems :
       \E t \in {"", a.title} :
         /\ \A d \in Calls : site[d] = "article" => phase[d] = "done"
         /\ \A d \in Calls : d < c => ~CanBegin(d)
         /\ Materialize(c, a.link, a.feedUrl, t)
  \/ \E c \in Calls, r \in SaveAnswers : AttemptReturns(c, r)
  \/ Advance
  \/ \E c \in Calls : MaterializeFetched(c, TRUE)

SpecSave == Init /\ [][NextSave]_vars

\* The materialize requests that were answered 200.
Materialized ==
  { c \in Calls : /\ site[c] = "article" /\ phase[c] = "done"
                  /\ callResult[c].status = 200 }

\* C31: after a materialize request for (feedUrl F, link L), every row of
\* the articles table for F and L, the row of the feed item included, has
\* the id the handler computed: there is one row for the article, and it
\* carries the markdown_path.
C31_MaterializeUpdatesFeedRow ==
  \A c \in Materialized :
    LET row == UpsertedRow(callUrl[c], reqBody[c].feedUrl, reqBody[c].title) IN
    \A k \in 1..Len(articles) :
      (articles[k].feed_url = row.feed_url /\ articles[k].link = row.link)
        => (articles[k].id = row.id /\ articles[k].markdown_path # "")

\* C34: no two rows of the articles table have the same markdown_path.
C34_OneDocumentPerArticle ==
  \A j, k \in 1..Len(articles) :
    (/\ articles[j].markdown_path # ""
     /\ articles[j].markdown_path = articles[k].markdown_path) => j = k

(***************************************************************************)
(* Passes and re-materializations of one document (SpecCollect).           *)
(***************************************************************************)
\* No request and no pass is under way.
Quiescent ==
  /\ \A n \in 1..Len(jobs) : jobs[n].state # "running"
  /\ \A c \in Calls : phase[c] \in {"idle", "done"}

\* The materialize request answered 200 last (calls begin in rising order).
LastMaterialized == CHOOSE c \in Materialized : \A d \in Materialized : d <= c

\* The text refs is the text page, up to references rewritten to asset files.
SameDocument(refs, page) ==
  /\ Len(refs) = Len(page)
  /\ \A k \in 1..Len(page) :
       /\ refs[k].alt = page[k].alt
       /\ refs[k].titled = page[k].titled
       /\ \/ refs[k].url = page[k].url
          \/ ("articles/" \o refs[k].url) \in assets

\* C33: once every request and every pass has finished, the document holds
\* the page of the last materialization (with references rewritten or
\* not), whatever passes were suspended while it was written.
C33_NoLostUpdate ==
  (Quiescent /\ Materialized # {}) =>
    SameDocument(docs[MarkdownFile(URLParse(PageUrl))].refs,
                 htmlToMarkdown(taskResult[LastMaterialized].body))

(***************************************************************************)
(* SpecLocalize: an article listed from a feed is made a favorite and      *)
(* materialized (with or without its title), in any order and repeatedly;  *)
(* the passes this starts run through the shared queue.                    *)
(***************************************************************************)
LocalItem == FeedItem(SaveFeed, "", "", "https://intranet.corp/feed", "T")
LocalId == stableId(SaveFeed, LocalItem.link)

NextLocalize ==
  \/ feeds = <<>> /\ AddFeed(SaveFeed, "News")
  \/ ProcessArticles(<<LocalItem>>)
  \/ \E c \in Calls, t \in {"", LocalItem.title} :
       /\ \A d \in Calls : site[d] = "article" => phase[d] = "done"
       /\ \A d \in Calls : d < c => ~CanBegin(d)
       /\ Materialize(c, LocalItem.link, LocalItem.feedUrl, t)
  \/ \E c \in Calls :
       AttemptReturns(c, Resp(200, IF site[c] = "article" THEN "page1" ELSE "png", ""))
  \/ Advance
  \/ \E c \in Calls : MaterializeFetched(c, TRUE)
  \/ \E f \in {"true", "false"} :
       Len(activity) < MaxEvents /\ SetArticleState(LocalId, "omitted", f)
  \/ \E n \in 1..Len(jobs) : DownloadFetched(n, TRUE, TRUE)

SpecLocalize == Init /\ [][NextLocalize]_vars

\* The markdown_path of the article id in the table ("" when it has none).
PathIn(table, id) ==
  IF \E k \in 1..Len(table) : table[k].id = id
    THEN table[CHOOSE k \in 1..Len(table) : table[k].id = id].markdown_path
    ELSE ""

\* A materialize request for the article id is answered 200 in this step.
MaterializedNow(id) ==
  \E c \in Calls :
    /\ site[c] = "article" /\ phase[c] = "settled" /\ phase'[c] = "done"
    /\ callResult'[c].status = 200
    /\ UpsertedRow(callUrl[c], reqBody[c].feedUrl, reqBody[c].title).id = id

\* The article id becomes a favorite in this step.
FavoritedNow(id) ==
  ~IsFavorite(articleState, id) /\ IsFavorite(articleState', id)

\* A pass for the article id and its document exists.
PassFor(id) ==
  \E n \in 1..Len(jobs) :
    jobs[n].articleId = id /\ jobs[n].path = PathIn(articles, id)

LocalizationStarts ==
  [][((MaterializedNow(LocalId) \/ FavoritedNow(LocalId))
        /\ IsFavorite(articleState', LocalId)
        /\ PathIn(articles', LocalId) # "") =>
       /\ Len(jobs') = Len(jobs) + 1
       /\ jobs'[Len(jobs')].articleId = LocalId
       /\ jobs'[Len(jobs')].path = PathIn(articles', LocalId)]_vars

FavoriteHasPass ==
  (IsFavorite(articleState, LocalId) /\ PathIn(articles, LocalId) # "")
    => PassFor(LocalId)

\* C32: the step that makes an article both a favorite and materialized
\* (the materialization of a favorite, or the favoriting of a materialized
\* article) starts a downloadResources pass for the article and the
\* document it then has; so an article that is a favorite and has a
\* document always has a pass for that document.
C32_LocalizedInEitherOrder == []FavoriteHasPass /\ LocalizationStarts

\* Favorite first, then materialized, then unmarked and marked again: a
\* pass was started by the materialization and another by the last request.
C32_Witness ==
  /\ Len(activity) = 4
  /\ activity[1].type = "state" /\ activity[2].type = "materialize"
  /\ activity[3].type = "state" /\ activity[4].type = "state"
  /\ Len(jobs) = 2
  /\ jobs[1].articleId = LocalId /\ jobs[2].articleId = LocalId
  /\ IsFavorite(articleState, LocalId)

(***************************************************************************)
(* RSSReader.loadFromOPML(opmlContent).  The parsed document is the list   *)
(* of its top-level outline nodes; a node has the attributes xmlUrl, title *)
(* and text ("" when absent) and its child nodes.                          *)
(***************************************************************************)
Outline(xmlUrl, title, text, outline) ==
  [xmlUrl |-> xmlUrl, title |-> title, text |-> text, outline |-> outline]

\* walk(node) over a list of nodes: the entries pushed to `flat`, in
\* document order, or thrown when `new URL(xmlUrl)` throws for a node that
\* has neither title nor text.
RECURSIVE walk(_)
walk(nodes) ==
  IF nodes = <<>> THEN [thrown |-> FALSE, flat |-> <<>>]
  ELSE
    LET node == Head(nodes)
        xmlUrl == node.xmlUrl
        named == Or(node.title, node.text)
    IN
    IF named = "" /\ xmlUrl # "" /\ ~URLParse(xmlUrl).ok
      THEN [thrown |-> TRUE, flat |-> <<>>]
    ELSE
      LET name == IF named # "" THEN named
                  ELSE IF xmlUrl # "" THEN URLParse(xmlUrl).hostname
                  ELSE "Unnamed Feed"
          own == IF xmlUrl # "" THEN <<[xmlUrl |-> xmlUrl, name |-> name]>>
                 ELSE <<>>
          below == walk(node.outline)
          rest == IF below.thrown THEN below ELSE walk(Tail(nodes))
      IN
      IF rest.thrown THEN [thrown |-> TRUE, flat |-> <<>>]
      ELSE [thrown |-> FALSE, flat |-> own \o below.flat \o rest.flat]

\* loadFromOPML up to its loop: the document is walked; the call rejects
\* if walk throws, and returns at once if there is no outline.
LoadFromOPML(outlines) ==
  /\ reply.kind = "none"
  /\ adding = <<>>
  /\ reply' = [kind |-> "opml", outlines |-> outlines,
               thrown |-> walk(outlines).thrown, flat |-> walk(outlines).flat]
  /\ UNCHANGED <<feeds, feedsTable, cache, phase, site, callUrl, cachedSnap,
                 retryVars, callResult, queueVars, probe, mem, parse,
                 articles, articleState, view, sideVars>>

\* The loop `for (const o of flat)`: `await this.addFeed(o.xmlUrl, o.name)`
\* for the next entry, once the call before it has returned or thrown
\* (a throw is caught and ignored).
LoadNextFeed ==
  /\ reply.kind = "opml"
  /\ Len(adding) < Len(reply.flat)
  /\ AddFeedBegin(reply.flat[Len(adding) + 1].xmlUrl,
                  reply.flat[Len(adding) + 1].name, "opml")

(***************************************************************************)
(* SpecOpml: one OPML document is loaded into an empty feed set.           *)
(***************************************************************************)
OpmlUrls == { "http://feed.example/rss", "http://rebind.example/", "not a url" }

OpmlLeaves ==
  { Outline(u, t, "", <<>>) : u \in OpmlUrls, t \in {"", "News"} }
    \cup { Outline("not a url", "", "Text", <<>>) }

OpmlFolders ==
  { Outline("", "Folder", "", <<a>>) : a \in OpmlLeaves }
    \cup { Outline("", "", "", <<a, b>>) : a, b \in OpmlLeaves }

OpmlDocuments ==
  { <<a>> : a \in OpmlLeaves \cup OpmlFolders }
    \cup { <<a, b>> : a \in OpmlLeaves \cup OpmlFolders, b \in OpmlLeaves }

NextOpml ==
  \/ \E outlines \in OpmlDocuments : LoadFromOPML(outlines)
  \/ LoadNextFeed
  \/ \E n \in 1..Len(adding) :
       \E ans \in DnsAnswers(URLParse(adding[n].url).hostname) :
         AddFeedResume(n, ans)

SpecOpml == Init /\ [][NextOpml]_vars

\* The feed URLs of the nodes of a document, in document order.
RECURSIVE UrlsOf(_)
UrlsOf(nodes) ==
  IF nodes = <<>> THEN <<>>
  ELSE (IF Head(nodes).xmlUrl # "" THEN <<Head(nodes).xmlUrl>> ELSE <<>>)
         \o UrlsOf(Head(nodes).outline) \o UrlsOf(Tail(nodes))

\* The validator accepts url whatever the resolver answers.
ValidFeedUrl(url) ==
  \A ans \in DnsAnswers(URLParse(url).hostname) :
    validateHttpUrl(url, AllowPrivateFeeds, ans).ok

\* The loadFromOPML call has returned or thrown.
LoadEnded ==
  /\ reply.kind = "opml"
  /\ \/ reply.thrown
     \/ /\ Len(adding) = Len(reply.flat)
        /\ \A n \in 1..Len(adding) : adding[n].state = "returned"

\* A node carrying the URL a stands before a node carrying the URL b.
Before(urls, a, b) ==
  \E p, q \in 1..Len(urls) :
    p < q /\ URLParse(urls[p]).href = a /\ URLParse(urls[q]).href = b

\* C36: a loadFromOPML call never throws for a node's feed URL; when it has
\* ended, every valid feed URL of the document, at any depth, is in the
\* live feed set, and the live feeds stand in document order.
C36_OpmlEntriesIsolated ==
  reply.kind = "opml" =>
    /\ ~reply.thrown
    /\ LoadEnded =>
         LET urls == UrlsOf(reply.outlines) IN
         /\ \A k \in 1..Len(urls) :
              ValidFeedUrl(urls[k]) => URLParse(urls[k]).href \in FeedUrls
         /\ \A i, j \in 1..Len(feeds) :
              i < j => Before(urls, feeds[i].url, feeds[j].url)

(***************************************************************************)
(* GET /api/articles: getAllArticles tags every item of a parsed feed with *)
(* the feed's title and its display name, and processArticles stores the   *)
(* listing.  An item's guid and link begin with the URL of its feed.       *)
(***************************************************************************)
\* The item of live feed k, as getAllArticles pushes it:
\* {...item, feedTitle: parsed.title, feedName: feed.name}
Tagged(k) ==
  FeedItem("", feeds[k].name, feeds[k].url \o "#1", feeds[k].url \o "/1", "T")

RECURSIVE allArticles(_)
\* The items of the feeds of S that were parsed, in the order of the feeds.
allArticles(S) ==
  IF S = {} THEN <<>>
  ELSE <<Tagged(Min(S))>> \o allArticles(S \ {Min(S)})

\* The handler: the feeds of S are parsed, the others give null (the JSON
\* index file it also writes is not part of the state).
ListArticles(S) == ProcessArticles(allArticles(S))

ListingNames == { "", "News", "Daily" }

NextListing ==
  \/ \E u \in {"http://feed.example/rss", "http://rebind.example/"} :
       \E n \in ListingNames : AddFeed(u, n)
  \/ \E S \in SUBSET (1..Len(feeds)) : S # {} /\ ListArticles(S)

SpecListing == Init /\ [][NextListing]_vars

\* C35: every row of the articles table is stored under the URL of the
\* feed its item came from, and its id is the digest of that URL and the
\* item's guid; so is every listed item.
C35_StoredUnderItsFeed ==
  /\ \A k \in 1..Len(articles) :
       /\ articles[k].guid = articles[k].feed_url \o "#1"
       /\ articles[k].id = stableId(articles[k].feed_url, articles[k].guid)
  /\ reply.kind = "articles" =>
       \A i \in 1..Len(reply.items) :
         reply.items[i].key = reply.items[i].feedUrl \o "#1"

(***************************************************************************)
(* SpecRelative: a page is materialized and its article is made a favorite *)
(* again and again; a pass over the document an earlier pass rewrote meets *)
(* relative references.  A fetch is answered 200 with an image or with a   *)
(* body of another content type.                                           *)
(***************************************************************************)
RelativeAnswers == { Resp(200, "png", ""), Resp(200, "html", "") }

NextRelative ==
  \/ \E c \in Calls :
       /\ \A d \in Calls : site[d] = "article" => phase[d] = "done"
       /\ \A d \in Calls : d < c => ~CanBegin(d)
       /\ MaterializeBegin(c, PageUrl)
  \/ \E c \in Calls :
       \E r \in (IF site[c] = "article" THEN {Resp(200, "page1", "")}
                 ELSE RelativeAnswers) :
         AttemptReturns(c, r)
  \/ Advance
  \/ \E c \in Calls : MaterializeFetched(c, TRUE)
  \/ \E f \in {"true", "false"} :
       Len(activity) < MaxEvents /\ SetArticleState(PageId, "omitted", f)
  \/ \E n \in 1..Len(jobs) : DownloadFetched(n, TRUE, TRUE)

SpecRelative == Init /\ [][NextRelative]_vars

IsRelative(url) == ~startsWith(url, "http")

\* A pass that does not know the source URL of its document leaves every
\* relative reference as it is and downloads none.
UnknownSourceSkips ==
  \A n \in 1..Len(jobs) :
    LET j == jobs[n] IN
    j.sourceUrl = NoSourceUrl =>
      \A k \in 1..Len(j.content) :
        IsRelative(j.content[k].url) =>
          /\ j.content[k].url \notin j.downloaded
          /\ k <= Len(j.updated) => j.updated[k] = j.content[k]

\* The fetch a pass awaits for a relative reference is the reference
\* resolved against the source URL; when it is answered with success the
\* file is written and the reference rewritten.
ResolvedFetchStored ==
  [][\A n \in 1..Len(jobs) :
       LET j == jobs[n]
           c == j.call
       IN
       (/\ j.state = "running" /\ c # 0
        /\ phase[c] = "settled" /\ phase'[c] = "done"
        /\ IsRelative(j.content[j.idx].url)) =>
         /\ callUrl[c] = Resolve(j.content[j.idx].url, j.sourceUrl)
         /\ taskResult[c].kind = "resolved" =>
              /\ j.content[j.idx].url \in jobs'[n].downloaded
              /\ jobs'[n].wrote # j.wrote
              /\ jobs'[n].wrote \subseteq assets'
              /\ jobs'[n].updated[j.idx].url # j.content[j.idx].url]_vars

\* C37: relative references are skipped when the source URL is unknown;
\* otherwise each is fetched at its URL resolved against the source URL,
\* and a fetch that succeeds has its bytes written and the reference
\* rewritten, whatever the content type of the response.
C37_RelativeReferences == []UnknownSourceSkips /\ ResolvedFetchStored

(***************************************************************************)
(* Failed materializations (SpecRetry).                                    *)
(***************************************************************************)
\* The fetch of call c has failed: its last attempt got no response or a
\* status outside 200..299, and the task has settled.
ArticleFetchFailed(c) ==
  /\ site[c] = "article"
  /\ phase[c] = "settled"
  /\ outcomes[c] # <<>>
  /\ LET st == outcomes[c][Len(outcomes[c])].status IN st < 200 \/ st > 299

\* C38: the step that answers a materialize request whose fetch failed
\* (on a status that is not retried, or with the retry budget spent)
\* answers 500 with the error, and writes no document and no asset,
\* changes no feed row, no article row and no article state, starts no
\* pass and logs no activity.
C38_FailedMaterializeLeavesNoTrace ==
  [][\A c \in Calls :
       (ArticleFetchFailed(c) /\ phase'[c] = "done") =>
         /\ callResult'[c].kind = "return"
         /\ callResult'[c].status = 500
         /\ callResult'[c].error
         /\ callResult'[c].errStatus = outcomes[c][Len(outcomes[c])].status
         /\ docs' = docs /\ assets' = assets
         /\ feedsTable' = feedsTable /\ feeds' = feeds
         /\ articles' = articles /\ articleState' = articleState
         /\ jobs' = jobs
         /\ activity' = activity]_vars

\* A request has failed with its retry budget spent, after four attempts.
C38_Witness ==
  \E c \in Calls :
    /\ site[c] = "article" /\ phase[c] = "done"
    /\ callResult[c].status = 500
    /\ Len(outcomes[c]) = retries + 1
    /\ docs = [p \in {} |-> 0] /\ articles = <<>> /\ activity = <<>>

(***************************************************************************)
(* SpecLive: up to MaxCalls fetches are added to the queue; every network  *)
(* attempt ends, and the timers (retry sleeps, the queue's interval) fire. *)
(***************************************************************************)
LiveAnswers == { Resp(200, "b1", ""), Resp(503, "", "") }

NextLive ==
  \/ \E c \in Calls, u \in ImageUrls :
       (\A d \in Calls : d < c => ~CanBegin(d)) /\ ResourceBegin(c, u)
  \/ \E c \in Calls, r \in LiveAnswers : AttemptReturns(c, r)
  \/ \E c \in Calls : Wake(c)
  \/ Advance

\* An attempt that is out comes back, a timer that is due fires, and time
\* goes on to the next timer.
Fairness ==
  /\ \A c \in Calls : WF_vars(\E r \in LiveAnswers : AttemptReturns(c, r))
  /\ \A c \in Calls : WF_vars(Wake(c))
  /\ WF_vars(Advance)

SpecLive == Init /\ [][NextLive]_vars /\ Fairness

\* The task of call c is in the queue: waiting, or started and not settled.
Pending(c) == phase[c] \in {"queued", "attempt", "sleep"}

AttemptsBounded ==
  \A c \in Calls :
    /\ Len(outcomes[c]) <= retries + 1
    /\ c \in waiting => outcomes[c] = <<>>
    /\ c \in running <=> phase[c] \in {"attempt", "sleep"}
    /\ phase[c] = "settled" => taskResult[c].kind \in {"resolved", "rejected"}

\* A task once settled stays settled, so this is: every pending task
\* eventually settles.
EverySettles ==
  (\E c \in Calls : Pending(c))
    ~> (/\ \A c \in Calls : ~Pending(c)
        /\ running = {} /\ waiting = {})

\* C39: a task added to the queue makes at most retries + 1 attempts and
\* eventually settles, resolved or rejected; the queue's slots are
\* eventually all free again and nothing is left waiting.
C39_EveryTaskSettles == []AttemptsBounded /\ EverySettles

\* Every task added has settled and the queue is empty; one task spent
\* its retry budget and was rejected, another resolved.
C39_Witness ==
  /\ \A c \in Calls : phase[c] = "settled"
  /\ running = {} /\ waiting = {}
  /\ \E c \in Calls :
       Len(outcomes[c]) = retries + 1 /\ taskResult[c].kind = "rejected"
  /\ \E c \in Calls : taskResult[c].kind = "resolved"

=============================================================================
